---- MODULE Spec2Model ----
(***************************************************************************)
(* The command tree of TurnipBeams: construction of Command, NamedCommand  *)
(* and RestCommand nodes, the recursive dispatch Command.execute /         *)
(* RestCommand.execute with its permission gate canExecute, the            *)
(* introspection walk Command.resolveInfo, and the message handler that    *)
(* starts a dispatch.                                                      *)
(*                                                                         *)
(* JavaScript strings are TLA+ strings (TLC evaluates Len, \o, SubSeq on   *)
(* them).  Command objects live in heap and arrays in arrays, and are      *)
(* named by their index there (0: null).  Every other JavaScript value is  *)
(* a record tagged by its field t.  The grave accent of the messages,      *)
(* which a TLA+ string cannot hold, is written ^.                          *)
(***************************************************************************)
EXTENDS Integers, Sequences, FiniteSets, TLC

(***************************************************************************)
(* Strings                                                                 *)
(***************************************************************************)
Digits == {"0", "1", "2", "3", "4", "5", "6", "7", "8", "9"}

Lower ==
    {"a", "b", "c", "d", "e", "f", "g", "h", "i", "j", "k", "l", "m",
     "n", "o", "p", "q", "r", "s", "t", "u", "v", "w", "x", "y", "z"}

Upper ==
    {"A", "B", "C", "D", "E", "F", "G", "H", "I", "J", "K", "L", "M",
     "N", "O", "P", "Q", "R", "S", "T", "U", "V", "W", "X", "Y", "Z"}

\* The class \w of a JavaScript regular expression.
WordChars == Lower \cup Upper \cup Digits \cup {"_"}

CharAt(s, i) == SubSeq(s, i, i)

\* s.startsWith(p, i - 1), positions counted from 1.
StartsAt(s, p, i) ==
    /\ i + Len(p) - 1 <= Len(s)
    /\ SubSeq(s, i, i + Len(p) - 1) = p

\* The position after the longest run of \w characters of s that starts at i.
RECURSIVE WordRunEnd(_, _)
WordRunEnd(s, i) ==
    IF i <= Len(s) /\ CharAt(s, i) \in WordChars
    THEN WordRunEnd(s, i + 1)
    ELSE i

IsWord(s) == \A i \in 1..Len(s) : CharAt(s, i) \in WordChars

\* Array.prototype.join
RECURSIVE Join(_, _)
Join(list, sep) ==
    IF Len(list) = 0 THEN ""
    ELSE IF Len(list) = 1 THEN list[1]
    ELSE list[1] \o sep \o Join(Tail(list), sep)

\* String.prototype.includes
Includes(s, sub) == \E i \in 1..(Len(s) + 1) : StartsAt(s, sub, i)

(***************************************************************************)
(* patterns                                                                *)
(***************************************************************************)
\* The quantifier {26,} of the ID groups and {7,} of the message-link tail.
MinIdLen == 26

MinTailLen == 7

\* patterns.channel = /^<#(\w{26,})>$/
MatchChannel(s) ==
    /\ Len(s) >= MinIdLen + 3
    /\ StartsAt(s, "<#", 1)
    /\ CharAt(s, Len(s)) = ">"
    /\ IsWord(SubSeq(s, 3, Len(s) - 1))

\* Group 1 of patterns.channel
ChannelGroup(s) == SubSeq(s, 3, Len(s) - 1)

\* patterns.user = /^<@?(\w{26,})>$/
MatchUser(s) ==
    LET from == IF StartsAt(s, "<@", 1) THEN 3 ELSE 2
    IN /\ StartsAt(s, "<", 1)
       /\ Len(s) >= 1
       /\ CharAt(s, Len(s)) = ">"
       /\ Len(s) - from >= MinIdLen
       /\ IsWord(SubSeq(s, from, Len(s) - 1))

\* Group 1 of patterns.user
UserGroup(s) ==
    SubSeq(s, IF StartsAt(s, "<@", 1) THEN 3 ELSE 2, Len(s) - 1)

\* patterns.id = /^(\w{26,})$/
MatchId(s) == Len(s) >= MinIdLen /\ IsWord(s)

\* patterns.messageLink, read left to right.  Every choice of the expression
\* is decided by the next character ("/" and "." are not \w), so the match
\* is a single pass.  The result is [ok, group 1, group 2].
NoLink == [ok |-> FALSE, g1 |-> "", g2 |-> ""]

\* \w{7,}$ from position p
LinkTail(s, p) ==
    LET e == WordRunEnd(s, p)
    IN e - p >= MinTailLen /\ e = Len(s) + 1

\* \w{26,}\/\w{7,}$ from position p
LinkNested(s, p) ==
    LET e == WordRunEnd(s, p)
    IN e - p >= MinIdLen /\ StartsAt(s, "/", e) /\ LinkTail(s, e + 1)

\* (\w{26,}|channel\/\w{26,}\/\w{7,})$ from position p
LinkSecond(s, p) ==
    LET e == WordRunEnd(s, p)
    IN \/ e - p >= MinIdLen /\ e = Len(s) + 1
       \/ StartsAt(s, "channel/", p) /\ LinkNested(s, p + 8)

\* (\w{26,})\/ from position p, and the second group
LinkFirst(s, p) ==
    LET e == WordRunEnd(s, p)
    IN IF e - p >= MinIdLen /\ StartsAt(s, "/", e) /\ LinkSecond(s, e + 1)
       THEN [ok |-> TRUE, g1 |-> SubSeq(s, p, e - 1), g2 |-> SubSeq(s, e + 1, Len(s))]
       ELSE NoLink

\* revolt\.chat\/(?:server|channel)\/ from position p
LinkPath(s, p) ==
    IF StartsAt(s, "revolt.chat/server/", p) THEN LinkFirst(s, p + 19)
    ELSE IF StartsAt(s, "revolt.chat/channel/", p) THEN LinkFirst(s, p + 20)
    ELSE NoLink

\* (?:nightly\.|app\.)? from position p
LinkHost(s, p) ==
    IF StartsAt(s, "nightly.", p) THEN LinkPath(s, p + 8)
    ELSE IF StartsAt(s, "app.", p) THEN LinkPath(s, p + 4)
    ELSE LinkPath(s, p)

LinkParse(s) ==
    IF StartsAt(s, "https://", 1) THEN LinkHost(s, 9)
    ELSE IF StartsAt(s, "http://", 1) THEN LinkHost(s, 8)
    ELSE NoLink

MatchMessageLink(s) == LinkParse(s).ok

(***************************************************************************)
(* Number(param)                                                           *)
(***************************************************************************)
\* A JavaScript number: finite with its value, or one of the three others.
Finite(n) == [kind |-> "finite", val |-> n]

PosInfinity == [kind |-> "Infinity", val |-> 0]

NegInfinity == [kind |-> "-Infinity", val |-> 0]

NaN == [kind |-> "NaN", val |-> 0]

DigitValue(c) ==
    CASE c = "0" -> 0 [] c = "1" -> 1 [] c = "2" -> 2 [] c = "3" -> 3
      [] c = "4" -> 4 [] c = "5" -> 5 [] c = "6" -> 6 [] c = "7" -> 7
      [] c = "8" -> 8 [] c = "9" -> 9

RECURSIVE DecimalValue(_)
DecimalValue(s) ==
    IF Len(s) = 0 THEN 0
    ELSE DecimalValue(SubSeq(s, 1, Len(s) - 1)) * 10 + DigitValue(CharAt(s, Len(s)))

IsDigits(s) == Len(s) > 0 /\ \A i \in 1..Len(s) : CharAt(s, i) \in Digits

\* Number(s) on the strings the model passes: the empty string is 0, an
\* optional sign before "Infinity" or before decimal digits is read, and
\* every other string without ".", an exponent, a radix prefix or white
\* space is NaN (ECMAScript StringToNumber).
ToNumber(s) ==
    LET signed == StartsAt(s, "+", 1) \/ StartsAt(s, "-", 1)
        neg == StartsAt(s, "-", 1)
        body == IF signed THEN SubSeq(s, 2, Len(s)) ELSE s
    IN IF s = "" THEN Finite(0)
       ELSE IF body = "Infinity" THEN (IF neg THEN NegInfinity ELSE PosInfinity)
       ELSE IF IsDigits(body)
            THEN Finite(IF neg THEN 0 - DecimalValue(body) ELSE DecimalValue(body))
       ELSE NaN

IsNaN(n) == n.kind = "NaN"

\* The test of the number branch.
AcceptsNumber(param) ==
    /\ ~IsNaN(ToNumber(param))
    /\ param # "Infinity"
    /\ param # "-Infinity"

(***************************************************************************)
(* Objects                                                                 *)
(***************************************************************************)
\* A nullable boolean or string: null, or the value.
Null == <<>>

Some(v) == <<v>>

\* An options object is a record of the properties it has; a property it
\* has not reads as undefined.  The object without properties, and a
\* missing argument, is NoOptions.
NoOptions == <<>>

Has(options, prop) == prop \in DOMAIN options

\* Map: its entries [key, node] in insertion order.
MapHas(map, key) == \E i \in 1..Len(map) : map[i].key = key

MapGet(map, key) == (CHOOSE i \in 1..Len(map) : map[i].key = key)

MapSet(map, key, node) ==
    IF MapHas(map, key)
    THEN [map EXCEPT ![MapGet(map, key)] = [key |-> key, node |-> node]]
    ELSE Append(map, [key |-> key, node |-> node])

\* map.get(key), for a key the map has.
MapNode(map, key) == map[MapGet(map, key)].node

\* An array index as a property key: "0", or digits without a leading zero
\* (keys of ten or more digits, not all of them array indices, do not occur).
IsArrayIndex(key) ==
    /\ IsDigits(key)
    /\ Len(key) <= 9
    /\ (Len(key) > 1 => CharAt(key, 1) # "0")

\* The keys of object obj (entries [key, node] in creation order) in the
\* order of for...in and Object.keys: the array indices ascending, then the
\* other keys in creation order.
ForInOrder(obj) ==
    LET idx == {i \in 1..Len(obj) : IsArrayIndex(obj[i].key)}
        rank(i) ==
            IF i \in idx
            THEN Cardinality({j \in idx :
                     DecimalValue(obj[j].key) < DecimalValue(obj[i].key)}) + 1
            ELSE Cardinality(idx) + Cardinality({j \in 1..i : j \notin idx})
    IN [r \in 1..Len(obj) |-> obj[CHOOSE i \in 1..Len(obj) : rank(i) = r].key]

ObjGet(obj, key) == obj[CHOOSE i \in 1..Len(obj) : obj[i].key = key].node

(***************************************************************************)
(* BaseCommand, Command, NamedCommand, RestCommand                         *)
(***************************************************************************)
DefaultRun == [type |-> "string", text |-> "No action was set on this command!"]

\* options?.run || 'No action was set on this command!'
RunOf(options) ==
    IF Has(options, "run") /\ options.run # [type |-> "string", text |-> ""]
    THEN options.run
    ELSE DefaultRun

\* options?.<branch> || null
RefOf(options, prop) == IF Has(options, prop) THEN options[prop] ELSE 0

BaseCommand(options) ==
    [description |->
         IF Has(options, "description") /\ options.description # ""
         THEN options.description ELSE "No description.",
     usage |-> IF Has(options, "usage") THEN options.usage ELSE "",
     permission |-> IF Has(options, "permission") THEN options.permission ELSE -1,
     nsfw |-> IF Has(options, "nsfw") THEN Some(options.nsfw) ELSE Null,
     channelType |->
         IF Has(options, "channelType") THEN options.channelType ELSE "null"]

\* A setter that assigns whatever the name is.
NameSetterOverwrite(node, value) ==
    [threw |-> FALSE, node |-> [node EXCEPT !.originalCommandName = Some(value)]]

\* NamedCommand: set name(value)
NameSetter(node, value) ==
    IF node.originalCommandName # Null
    THEN [threw |-> TRUE, node |-> node]
    ELSE [threw |-> FALSE, node |-> [node EXCEPT !.originalCommandName = Some(value)]]

\* NamedCommand: get name()
NameGetter(node) ==
    IF node.originalCommandName = Null
    THEN [threw |-> TRUE, value |-> ""]
    ELSE [threw |-> FALSE, value |-> node.originalCommandName[1]]

\* A loop that binds no alias.
AliasLoopNone(st, aliases, i, baseSubcommands, name, subcmd) == st

\* A loop in which an alias bound before is bound again, to the sub-command
\* that declares it last.
RECURSIVE AliasLoopOverwrite(_, _, _, _, _, _)
AliasLoopOverwrite(st, aliases, i, baseSubcommands, name, subcmd) ==
    IF i > Len(aliases) THEN st
    ELSE LET alias == aliases[i]
             next ==
                 IF \E k \in 1..Len(baseSubcommands) : baseSubcommands[k] = alias
                 THEN [st EXCEPT !.warnings =
                          Append(@, [warn |-> "base", alias |-> alias, name |-> name])]
                 ELSE [st EXCEPT !.map = MapSet(@, alias, subcmd)]
         IN AliasLoopOverwrite(next, aliases, i + 1, baseSubcommands, name, subcmd)

\* The loop over one sub-command's aliases: st is [map, warnings].
RECURSIVE AliasLoop(_, _, _, _, _, _)
AliasLoop(st, aliases, i, baseSubcommands, name, subcmd) ==
    IF i > Len(aliases) THEN st
    ELSE LET alias == aliases[i]
             next ==
                 IF \E k \in 1..Len(baseSubcommands) : baseSubcommands[k] = alias
                 THEN [st EXCEPT !.warnings =
                          Append(@, [warn |-> "base", alias |-> alias, name |-> name])]
                 ELSE IF MapHas(st.map, alias)
                 THEN [st EXCEPT !.warnings =
                          Append(@, [warn |-> "duplicate", alias |-> alias, name |-> name])]
                 ELSE [st EXCEPT !.map = MapSet(@, alias, subcmd)]
         IN AliasLoop(next, aliases, i + 1, baseSubcommands, name, subcmd)

\* The first loop: every declared name is bound to its sub-command.
RECURSIVE BaseLoop(_, _, _, _)
BaseLoop(map, obj, order, i) ==
    IF i > Len(order) THEN map
    ELSE BaseLoop(MapSet(map, order[i], ObjGet(obj, order[i])), obj, order, i + 1)

\* A second loop that binds the aliases and assigns no name.
RECURSIVE NameLoopUnnamed(_, _, _, _, _)
NameLoopUnnamed(st, obj, order, i, baseSubcommands) ==
    IF i > Len(order) THEN st
    ELSE LET name == order[i]
             subcmd == ObjGet(obj, name)
             al == AliasLoop([map |-> st.map, warnings |-> st.warnings],
                             st.heap[subcmd].aliases, 1, baseSubcommands, name, subcmd)
         IN NameLoopUnnamed([st EXCEPT !.map = al.map, !.warnings = al.warnings],
                            obj, order, i + 1, baseSubcommands)

\* The second loop: st is [heap, map, warnings, threw, tried], tried being
\* the sub-commands whose name the loop has assigned, in order.  Assigning
\* the name of a sub-command that has one throws, and ends the constructor
\* there.
RECURSIVE NameLoop(_, _, _, _, _)
NameLoop(st, obj, order, i, baseSubcommands) ==
    IF i > Len(order) THEN st
    ELSE LET name == order[i]
             subcmd == ObjGet(obj, name)
             set == NameSetter(st.heap[subcmd], name)
         IN IF set.threw THEN [st EXCEPT !.threw = TRUE, !.tried = Append(@, subcmd)]
            ELSE LET al == AliasLoop([map |-> st.map, warnings |-> st.warnings],
                                     set.node.aliases, 1, baseSubcommands, name, subcmd)
                 IN NameLoop([heap |-> [st.heap EXCEPT ![subcmd] = set.node],
                              map |-> al.map,
                              warnings |-> al.warnings,
                              threw |-> FALSE,
                              tried |-> Append(st.tried, subcmd)],
                             obj, order, i + 1, baseSubcommands)

\* this.id of the switch over options.id
IdBranch(options) ==
    IF ~Has(options, "id") THEN 0
    ELSE CASE options.id = "channel" -> RefOf(options, "channel")
           [] options.id = "role" -> RefOf(options, "role")
           [] options.id = "emote" -> RefOf(options, "emote")
           [] options.id = "message" -> RefOf(options, "message")
           [] options.id = "user" -> RefOf(options, "user")
           [] options.id = "server" -> RefOf(options, "guild")

\* new Command(options) on heap h: [threw, heap, warnings, tried, node], node
\* being the object under construction; it is put in the heap by the caller.
CommandConstructor(h, options) ==
    LET fields ==
            BaseCommand(options) @@
            [cls |-> "Command",
             run |-> RunOf(options),
             channel |-> RefOf(options, "channel"),
             role |-> RefOf(options, "role"),
             emote |-> RefOf(options, "emote"),
             message |-> RefOf(options, "message"),
             user |-> RefOf(options, "user"),
             guild |-> RefOf(options, "guild"),
             id |-> IdBranch(options),
             idType |-> IF Has(options, "id") THEN options.id ELSE "null",
             number |-> RefOf(options, "number"),
             any |-> RefOf(options, "any")]
        obj == IF Has(options, "subcommands") THEN options.subcommands ELSE <<>>
        order == ForInOrder(obj)
        st == NameLoop([heap |-> h,
                        map |-> BaseLoop(<<>>, obj, order, 1),
                        warnings |-> <<>>,
                        threw |-> FALSE,
                        tried |-> <<>>],
                       obj, order, 1, order)
    IN [threw |-> st.threw,
        heap |-> st.heap,
        warnings |-> st.warnings,
        tried |-> st.tried,
        node |-> fields @@ [subcommands |-> st.map]]

\* new NamedCommand(options)
NamedCommandConstructor(h, options) ==
    LET super == CommandConstructor(h, options)
    IN [super EXCEPT !.node =
           [cls |-> "NamedCommand",
            aliases |-> IF Has(options, "aliases") THEN options.aliases ELSE <<>>,
            originalCommandName |->
                IF Has(options, "nameOverride") THEN Some(options.nameOverride) ELSE Null]
           @@ super.node]

\* new RestCommand(options)
RestCommandConstructor(h, options) ==
    [threw |-> FALSE,
     heap |-> h,
     warnings |-> <<>>,
     tried |-> <<>>,
     node |-> BaseCommand(options) @@ [cls |-> "RestCommand", run |-> RunOf(options)]]

IsCommand(node) == node.cls \in {"Command", "NamedCommand"}

IsRestCommand(node) == node.cls = "RestCommand"

(***************************************************************************)
(* Values of the platform (revolt.js) and of the surrounding library       *)
(***************************************************************************)
Undefined == [t |-> "undefined"]

JsNull == [t |-> "null"]

Str(s) == [t |-> "string", str |-> s]

Num(n) == [t |-> "number", num |-> n]

\* Every object is truthy; of the other values the model tests only
\* undefined, null and strings.
Truthy(v) ==
    /\ v.t \notin {"undefined", "null"}
    /\ (v.t = "string" => v.str # "")

\* String(n) of an integer
RECURSIVE IntToString(_)
IntToString(n) ==
    IF n < 0 THEN "-" \o IntToString(0 - n)
    ELSE IF n < 10
    THEN CASE n = 0 -> "0" [] n = 1 -> "1" [] n = 2 -> "2" [] n = 3 -> "3"
           [] n = 4 -> "4" [] n = 5 -> "5" [] n = 6 -> "6" [] n = 7 -> "7"
           [] n = 8 -> "8" [] n = 9 -> "9"
    ELSE IntToString(n \div 10) \o IntToString(n % 10)

\* ^${channel}^: a channel renders as its mention.
ChannelToString(channel) == "<#" \o channel.id \o ">"

\* menu.author!.toString(): a user renders as its mention.
UserToString(user) == "<@" \o user.id \o ">"

\* The prefix resolver installed at start-up.
getPrefix(server) == "."

\* The names of the permission levels, lowest first (./permission).
PermissionNames == <<"User", "Moderator", "Administrator">>

\* getPermissionLevel: the highest level whose check the caller passes; the
\* message carries it as author.level.
getPermissionLevel(author, member) == author.level

\* hasPermission: some level at or above the required one accepts the caller.
hasPermission(author, member, permission) ==
    getPermissionLevel(author, member) >= permission

getPermissionName(level) ==
    IF level + 1 \in DOMAIN PermissionNames THEN PermissionNames[level + 1] ELSE "N/A"

\* parseVars(line, definitions, invalid): the template with its variables
\* bound; a template without "%" is sent as it stands.
parseVars(line, definitions, invalid) ==
    IF Includes(line, "%")
    THEN [t |-> "parsed", line |-> line, definitions |-> definitions, invalid |-> invalid]
    ELSE Str(line)

(***************************************************************************)
(* lib.ts: the lookups.  env is what the platform answers.                 *)
(***************************************************************************)
\* client.channels.fetch(id): a channel of some type, or a rejection.
FetchedChannel(id, env) == [t |-> "channel", id |-> id, channel_type |-> env.channel]

getChannelByID(id, env) ==
    IF env.channel # "none"
    THEN FetchedChannel(id, env)
    ELSE Str("No channel found by the ID of ^" \o id \o "^!")

\* channel is a Channel, or a string naming one.
getMessageByID(channel, id, env) ==
    LET targetChannel == getChannelByID(channel.str, env)
        resolved == IF channel.t = "string" THEN targetChannel ELSE channel
    IN IF channel.t = "string" /\ targetChannel.t # "channel"
       THEN targetChannel
       ELSE IF (channel.t = "string"
                /\ targetChannel.channel_type \notin {"TextChannel", "DirectMessage"})
       THEN Str("^" \o id \o "^ isn't a valid text-based channel!")
       ELSE IF env.message
       THEN [t |-> "message", id |-> id, channel |-> resolved.id]
       ELSE Str("^" \o id \o "^ isn't a valid message of the channel "
                \o ChannelToString(resolved) \o "!")

getUserByID(id, env) ==
    IF env.user
    THEN [t |-> "user", id |-> id]
    ELSE Str("No user found by the ID of ^" \o id \o "^!")

getGuildByID(id, env) ==
    IF env.guild
    THEN [t |-> "server", id |-> id]
    ELSE Str("No guild found by the ID of ^" \o id \o "^!")

(***************************************************************************)
(* canExecute                                                              *)
(***************************************************************************)
\* null, or the message of the first check that fails.
canExecute(menu, metadata) ==
    IF /\ metadata.channelType = "TextChannel"
       /\ \/ ~(menu.channel.channel_type = "TextChannel")
          \/ menu.server = JsNull
          \/ menu.member = JsNull
    THEN Str("This command must be executed in a server.")
    ELSE IF /\ metadata.channelType = "DirectMessage"
            /\ \/ menu.channel.channel_type # "DirectMessage"
               \/ menu.server # JsNull
               \/ menu.member # JsNull
    THEN Str("This command must be executed as a direct message.")
    ELSE IF /\ metadata.nsfw
            /\ menu.channel.channel_type # "DirectMessage"
            /\ ~Truthy(menu.channel)
    THEN Str("This command must be executed in either an NSFW channel or as a direct message.")
    ELSE IF ~hasPermission(menu.author, menu.member, metadata.permission)
    THEN LET userPermLevel == getPermissionLevel(menu.author, menu.member)
         IN Str("You don't have access to this command! Your permission level is ^"
                \o getPermissionName(userPermLevel) \o "^ (" \o IntToString(userPermLevel)
                \o "), but this command requires a permission level of ^"
                \o getPermissionName(metadata.permission) \o "^ ("
                \o IntToString(metadata.permission) \o ").")
    ELSE JsNull

(***************************************************************************)
(* index.ts: launch and the bindings it assigns                            *)
(***************************************************************************)
\* The clients of the model.  A permission level is modelled by its name.
Clients == {1, 2}

\* The bindings as the module initialises them: a placeholder client (0),
\* the one level 'User', the prefix resolver that answers '.' and the
\* identity for a category transformer; no handler is attached.
NotLaunched ==
    [client |-> 0,
     reset |-> {},
     attached |-> [c \in Clients |-> 0],
     permissionLevels |-> <<"User">>,
     getPrefix |-> "default",
     categoryTransformer |-> "default"]

\* The assignment of the table whatever the list is.
InstallPermissionLevelsUnchecked(current, settings) ==
    IF Has(settings, "permissionLevels")
    THEN [levels |-> settings.permissionLevels, warned |-> FALSE]
    ELSE [levels |-> current, warned |-> FALSE]

\* if (settings?.permissionLevels) ...: the table after launch, and whether
\* launch warned.  An array is truthy also when it is empty.
InstallPermissionLevels(current, settings) ==
    IF Has(settings, "permissionLevels")
    THEN IF Len(settings.permissionLevels) > 0
         THEN [levels |-> settings.permissionLevels, warned |-> FALSE]
         ELSE [levels |-> current, warned |-> TRUE]
    ELSE [levels |-> current, warned |-> FALSE]

\* launch(newClient, commandsDirectory, settings) on the bindings cfg:
\* [config, warned].
launch(cfg, newClient, settings) ==
    LET installed == InstallPermissionLevels(cfg.permissionLevels, settings)
    IN [config |->
            [client |-> newClient,
             reset |-> cfg.reset \cup {cfg.client},
             attached |-> [cfg.attached EXCEPT ![newClient] = @ + 1],
             permissionLevels |-> installed.levels,
             getPrefix |->
                 IF Has(settings, "getPrefix") THEN settings.getPrefix ELSE cfg.getPrefix,
             categoryTransformer |->
                 IF Has(settings, "categoryTransformer")
                 THEN settings.categoryTransformer ELSE cfg.categoryTransformer],
        warned |-> installed.warned]

\* The bindings of the dispatch specifications: launch was called once, with
\* the three levels of PermissionNames.
Launched == launch(NotLaunched, 1, [permissionLevels |-> PermissionNames]).config

(***************************************************************************)
(* State                                                                   *)
(***************************************************************************)
VARIABLES
    heap,       \* the Command, NamedCommand and RestCommand objects
    commands,   \* the registered top-level commands: a Map from header to node
    arrays,     \* the arrays the message handler creates
    disp,       \* per received message: the dispatch it started
    info,       \* what the last call of resolveInfo returned
    last,       \* the last constructor or name access, and how it ended
    names,      \* per object: whether it was made with nameOverride, and the
                \* number of assignments of its name made since
    config      \* the bindings launch assigns: client, permissionLevels,
                \* getPrefix and categoryTransformer, and the message
                \* handlers attached to each client

vars == <<heap, commands, arrays, disp, info, last, names, config>>

Push(arrs, ref, v) == [arrs EXCEPT ![ref] = Append(@, v)]

\* array.push(...items)
RECURSIVE PushAll(_, _, _)
PushAll(arrs, ref, items) ==
    IF Len(items) = 0 THEN arrs
    ELSE PushAll(Push(arrs, ref, Head(items)), ref, Tail(items))

Log(d, event) == [d EXCEPT !.log = Append(@, event)]

\* execute returns value: the dispatch is back in the handler.
Return(d, value) ==
    [Log(d, [ev |-> "return", value |-> value]) EXCEPT !.pc = "returned", !.result = value]

(***************************************************************************)
(* Command.execute                                                         *)
(***************************************************************************)
\* The update of the inherited properties by truthiness: a node that
\* specifies nsfw as false or permission as 0 leaves the inherited value.
ExecuteInheritTruthy(this, metadata) ==
    [metadata EXCEPT
        !.permission = IF this.permission > 0 THEN this.permission ELSE @,
        !.nsfw = IF this.nsfw = Some(TRUE) THEN TRUE ELSE @,
        !.channelType = IF this.channelType # "null" THEN this.channelType ELSE @]

\* The inherited properties, updated by the node that specifies them.
ExecuteInherit(this, metadata) ==
    [metadata EXCEPT
        !.permission = IF this.permission # -1 THEN this.permission ELSE @,
        !.nsfw = IF this.nsfw # Null THEN this.nsfw[1] ELSE @,
        !.channelType = IF this.channelType # "null" THEN this.channelType ELSE @]

\* The variables of a string run.
RunVars(arrs, d) ==
    [author |-> UserToString(d.menu.author),
     prefix |-> getPrefix(d.menu.server),
     command |-> d.metadata.header \o " " \o Join(arrs[d.metadata.symbolicArgs], ", ")]

\* The leaf step without the gate: the run of the node whatever canExecute
\* says.
ExecuteLeafUngated(h, arrs, d) ==
    LET this == h[d.this]
        gated == Log(d, [ev |-> "canExecute", value |-> canExecute(d.menu, d.metadata),
                         permission |-> d.metadata.permission,
                         nsfw |-> d.metadata.nsfw,
                         channelType |-> d.metadata.channelType])
    IN IF this.run.type = "string"
       THEN [Log(gated, [ev |-> "send",
                         content |-> parseVars(this.run.text, RunVars(arrs, d), "???")])
                EXCEPT !.pc = "send"]
       ELSE [Log(gated, [ev |-> "run", fn |-> this.run.fn, this |-> d.this,
                         args |-> arrs[d.menu.args], combined |-> Undefined])
                EXCEPT !.pc = "run"]

\* The leaf step that sends nothing: a string run returns null at once.
ExecuteLeafSilent(h, arrs, d) ==
    LET this == h[d.this]
        error == canExecute(d.menu, d.metadata)
        gated == Log(d, [ev |-> "canExecute", value |-> error,
                         permission |-> d.metadata.permission,
                         nsfw |-> d.metadata.nsfw,
                         channelType |-> d.metadata.channelType])
    IN IF Truthy(error) THEN Return(gated, error)
       ELSE IF this.run.type = "string"
       THEN Return(gated, JsNull)
       ELSE [Log(gated, [ev |-> "run", fn |-> this.run.fn, this |-> d.this,
                         args |-> arrs[d.menu.args], combined |-> Undefined])
                EXCEPT !.pc = "run"]

\* No arguments are left: the gate, then the run of the node.  The awaited
\* send or handler is under way when the step ends.
ExecuteLeaf(h, arrs, d) ==
    LET this == h[d.this]
        error == canExecute(d.menu, d.metadata)
        gated == Log(d, [ev |-> "canExecute", value |-> error,
                         permission |-> d.metadata.permission,
                         nsfw |-> d.metadata.nsfw,
                         channelType |-> d.metadata.channelType])
    IN IF Truthy(error) THEN Return(gated, error)
       ELSE IF this.run.type = "string"
       THEN [Log(gated, [ev |-> "send",
                         content |-> parseVars(this.run.text, RunVars(arrs, d), "???")])
                EXCEPT !.pc = "send"]
       ELSE [Log(gated, [ev |-> "run", fn |-> this.run.fn, this |-> d.this,
                         args |-> arrs[d.menu.args], combined |-> Undefined])
                EXCEPT !.pc = "run"]

\* The step into the sub-node with the value put in front of the call
\* context instead of behind it.
DescendPrepend(arrs, d, branch, param, symbolic, value, next) ==
    [d |-> [Log(d, [ev |-> "match", branch |-> branch, param |-> param])
               EXCEPT !.this = next, !.pc = "execute"],
     arrays |->
         LET a1 == IF symbolic = Null THEN arrs
                   ELSE Push(arrs, d.metadata.symbolicArgs, symbolic[1])
         IN IF value = Null THEN a1
            ELSE [a1 EXCEPT ![d.menu.args] = <<value[1]>> \o @]]

\* The step into sub-node next for a matched token: [d, arrays].
Descend(arrs, d, branch, param, symbolic, value, next) ==
    [d |-> [Log(d, [ev |-> "match", branch |-> branch, param |-> param])
               EXCEPT !.this = next, !.pc = "execute"],
     arrays |->
         LET a1 == IF symbolic = Null THEN arrs
                   ELSE Push(arrs, d.metadata.symbolicArgs, symbolic[1])
         IN IF value = Null THEN a1 ELSE Push(a1, d.menu.args, value[1])]

\* An awaited lookup starts: the step ends with the dispatch waiting for it.
Await(arrs, d, fn, branch, param, target, id, next) ==
    [d |-> [Log(d, [ev |-> "lookup", fn |-> fn, param |-> param, id |-> id])
               EXCEPT !.pc = "lookup",
                      !.wait = [fn |-> fn, branch |-> branch, param |-> param,
                                channel |-> target, id |-> id, next |-> next]],
     arrays |-> arrs]

\* The generic-ID branch, after its '<id>' is pushed.
ExecuteId(h, arrs, d, param, env) ==
    LET this == h[d.this]
        id == param
    IN CASE this.idType = "channel" ->
                Await(arrs, d, "getChannelByID", "id", param, Undefined, id, this.id)
         [] this.idType = "role" ->
                IF ~Truthy(d.menu.server)
                THEN [d |-> Return(d, Str("You can't use role parameters in DM channels!")),
                      arrays |-> arrs]
                ELSE IF env.roles = "undefined"
                THEN [d |-> [Log(d, [ev |-> "throw", error |-> "TypeError"])
                                EXCEPT !.pc = "rejected"],
                      arrays |-> arrs]
                ELSE IF env.roles = "has"
                THEN Descend(arrs, d, "id", param, Null, Some([t |-> "role", id |-> id]), this.id)
                ELSE [d |-> Return(d, Str("^" \o id \o "^ isn't a valid role in this server!")),
                      arrays |-> arrs]
         [] this.idType = "emote" ->
                [d |-> Return(d, Str("Emotes aren't implemented in Revolt yet.")),
                 arrays |-> arrs]
         [] this.idType = "message" ->
                Await(arrs, d, "getMessageByID", "id", param, d.menu.channel, id, this.id)
         [] this.idType = "user" ->
                Await(arrs, d, "getUserByID", "id", param, Undefined, id, this.id)
         [] this.idType = "server" ->
                LET guild == getGuildByID(id, env)
                    answered == Log(d, [ev |-> "found", fn |-> "getGuildByID", value |-> guild])
                IN IF guild.t # "string"
                   THEN Descend(arrs, answered, "id", param, Null, Some(guild), this.id)
                   ELSE [d |-> Return(answered, guild), arrays |-> arrs]

\* The argument list left as it is: the argument taken off is not put back.
UnshiftDropped(list, item) == list

\* args.unshift(param)
Unshift(list, item) == <<item>> \o list

\* The error without the arguments: the header alone.
NoMatchMessageBare(header, symbolicArgs) ==
    "No valid command sequence matching ^" \o header \o "^ found."

\* The error of an argument no branch takes.
NoMatchMessage(header, symbolicArgs) ==
    "No valid command sequence matching ^" \o header \o " "
    \o Join(symbolicArgs, " ") \o "^ found."

\* The typed branches with the number branch tried before the others.
ExecuteTypedNumberFirst(h, arrs, d, param, env) ==
    LET this == h[d.this]
        isMessageLink == MatchMessageLink(param)
        sym == d.metadata.symbolicArgs
    IN IF this.number # 0 /\ AcceptsNumber(param)
       THEN Descend(arrs, d, "number", param, Some("<number>"),
                    Some(Num(ToNumber(param))), this.number)
       ELSE IF this.channel # 0 /\ MatchChannel(param)
       THEN Await(arrs, d, "getChannelByID", "channel", param, Undefined,
                  ChannelGroup(param), this.channel)
       ELSE IF this.message # 0 /\ isMessageLink
       THEN Await(arrs, d, "getMessageByID", "message", param,
                  Str(LinkParse(param).g1), LinkParse(param).g2, this.message)
       ELSE IF this.user # 0 /\ MatchUser(param)
       THEN Await(arrs, d, "getUserByID", "user", param, Undefined,
                  UserGroup(param), this.user)
       ELSE IF this.id # 0 /\ this.idType # "null" /\ MatchId(param)
       THEN ExecuteId(h, Push(arrs, sym, "<id>"), d, param, env)
       ELSE IF this.any # 0 /\ IsCommand(h[this.any])
       THEN Descend(arrs, d, "any", param, Some("<any>"), Some(Str(param)), this.any)
       ELSE IF this.any # 0 /\ IsRestCommand(h[this.any])
       THEN LET a1 == Push(arrs, sym, "<...>")
                a2 == [a1 EXCEPT ![d.args] = Unshift(@, param)]
                a3 == PushAll(a2, d.menu.args, [i \in 1..Len(a2[d.args]) |-> Str(a2[d.args][i])])
            IN [d |-> [Log(d, [ev |-> "match", branch |-> "rest", param |-> param])
                          EXCEPT !.this = this.any,
                                 !.pc = "restExecute",
                                 !.combined = Join(a3[d.args], " ")],
                arrays |-> a3]
       ELSE LET a1 == Push(arrs, sym, "\"" \o param \o "\"")
            IN [d |-> Return(Log(d, [ev |-> "nomatch", param |-> param]),
                             Str(NoMatchMessage(d.metadata.header, a1[sym]))),
                arrays |-> a1]

\* The typed branches, in the order of the code: the first that has a node
\* and whose test param passes.
ExecuteTyped(h, arrs, d, param, env) ==
    LET this == h[d.this]
        isMessageLink == MatchMessageLink(param)
        sym == d.metadata.symbolicArgs
    IN IF this.channel # 0 /\ MatchChannel(param)
       THEN Await(arrs, d, "getChannelByID", "channel", param, Undefined,
                  ChannelGroup(param), this.channel)
       ELSE IF this.message # 0 /\ isMessageLink
       THEN Await(arrs, d, "getMessageByID", "message", param,
                  Str(LinkParse(param).g1), LinkParse(param).g2, this.message)
       ELSE IF this.user # 0 /\ MatchUser(param)
       THEN Await(arrs, d, "getUserByID", "user", param, Undefined,
                  UserGroup(param), this.user)
       ELSE IF this.id # 0 /\ this.idType # "null" /\ MatchId(param)
       THEN ExecuteId(h, Push(arrs, sym, "<id>"), d, param, env)
       ELSE IF this.number # 0 /\ AcceptsNumber(param)
       THEN Descend(arrs, d, "number", param, Some("<number>"),
                    Some(Num(ToNumber(param))), this.number)
       ELSE IF this.any # 0 /\ IsCommand(h[this.any])
       THEN Descend(arrs, d, "any", param, Some("<any>"), Some(Str(param)), this.any)
       ELSE IF this.any # 0 /\ IsRestCommand(h[this.any])
       THEN LET a1 == Push(arrs, sym, "<...>")
                a2 == [a1 EXCEPT ![d.args] = Unshift(@, param)]
                a3 == PushAll(a2, d.menu.args, [i \in 1..Len(a2[d.args]) |-> Str(a2[d.args][i])])
            IN [d |-> [Log(d, [ev |-> "match", branch |-> "rest", param |-> param])
                          EXCEPT !.this = this.any,
                                 !.pc = "restExecute",
                                 !.combined = Join(a3[d.args], " ")],
                arrays |-> a3]
       ELSE LET a1 == Push(arrs, sym, "\"" \o param \o "\"")
            IN [d |-> Return(Log(d, [ev |-> "nomatch", param |-> param]),
                             Str(NoMatchMessage(d.metadata.header, a1[sym]))),
                arrays |-> a1]

\* The branches with the channel mention tested before the sub-command map.
ExecuteBranchChannelFirst(h, arrs, d, param, env) ==
    LET this == h[d.this]
    IN IF this.channel # 0 /\ MatchChannel(param)
       THEN Await(arrs, d, "getChannelByID", "channel", param, Undefined,
                  ChannelGroup(param), this.channel)
       ELSE IF MapHas(this.subcommands, param)
       THEN Descend(arrs, d, "subcommand", param, Some(param), Null,
                    MapNode(this.subcommands, param))
       ELSE ExecuteTyped(h, arrs, d, param, env)

\* The leftmost argument param is taken off: a key of the sub-command map
\* selects its node before any typed branch is tried.
ExecuteBranch(h, arrs, d, param, env) ==
    LET this == h[d.this]
    IN IF MapHas(this.subcommands, param)
       THEN Descend(arrs, d, "subcommand", param, Some(param), Null,
                    MapNode(this.subcommands, param))
       ELSE ExecuteTyped(h, arrs, d, param, env)

\* A call of Command.execute that reads the leftmost argument and leaves it
\* in the list.
CommandExecuteKeepsToken(h, arrs, d, env) ==
    LET args == arrs[d.args]
        entered == [Log(d, [ev |-> "execute", this |-> d.this, args |-> args,
                            symbolicArgs |-> arrs[d.metadata.symbolicArgs]])
                       EXCEPT !.metadata = ExecuteInherit(h[d.this], d.metadata)]
    IN IF Len(args) = 0
       THEN [d |-> ExecuteLeaf(h, arrs, entered), arrays |-> arrs]
       ELSE ExecuteBranch(h, arrs, entered, Head(args), env)

\* One call of Command.execute on node d.this, up to the call it hands over
\* to, the await it stops at, or its return: [d, arrays].
CommandExecute(h, arrs, d, env) ==
    LET args == arrs[d.args]
        entered == [Log(d, [ev |-> "execute", this |-> d.this, args |-> args,
                            symbolicArgs |-> arrs[d.metadata.symbolicArgs]])
                       EXCEPT !.metadata = ExecuteInherit(h[d.this], d.metadata)]
    IN IF Len(args) = 0
       THEN [d |-> ExecuteLeaf(h, arrs, entered), arrays |-> arrs]
       ELSE ExecuteBranch(h, [arrs EXCEPT ![d.args] = Tail(@)], entered, Head(args), env)

\* The answer of a lookup taken for a value whatever it is.
LookupResumeUnchecked(arrs, d, env) ==
    LET w == d.wait
        value == CASE w.fn = "getChannelByID" -> getChannelByID(w.id, env)
                   [] w.fn = "getMessageByID" -> getMessageByID(w.channel, w.id, env)
                   [] w.fn = "getUserByID" -> getUserByID(w.id, env)
    IN Descend(arrs, Log(d, [ev |-> "found", fn |-> w.fn, value |-> value]),
               w.branch, w.param, Null, Some(value), w.next)

\* The awaited lookup of d.wait answered: its value is pushed and the node
\* of the branch executes, or its not-found string is returned.
LookupResume(arrs, d, env) ==
    LET w == d.wait
        value == CASE w.fn = "getChannelByID" -> getChannelByID(w.id, env)
                   [] w.fn = "getMessageByID" -> getMessageByID(w.channel, w.id, env)
                   [] w.fn = "getUserByID" -> getUserByID(w.id, env)
        symbolic == CASE w.branch = "channel" -> Some("<channel>")
                      [] w.branch = "message" -> Some("<message>")
                      [] w.branch = "user" -> Some("<user>")
                      [] w.branch = "id" ->
                            IF w.fn = "getChannelByID" THEN Some("<channel>") ELSE Null
        answered == Log(d, [ev |-> "found", fn |-> w.fn, value |-> value])
    IN IF value.t # "string"
       THEN Descend(arrs, answered, w.branch, w.param, symbolic, Some(value), w.next)
       ELSE [d |-> Return(answered, value), arrays |-> arrs]

(***************************************************************************)
(* RestCommand.execute                                                     *)
(***************************************************************************)
RestInherit(this, metadata) ==
    [metadata EXCEPT
        !.permission = IF this.permission # -1 THEN this.permission ELSE @,
        !.nsfw = IF this.nsfw # Null THEN this.nsfw[1] ELSE @,
        !.channelType = IF this.channelType # "null" THEN this.channelType ELSE @]

\* The call of RestCommand.execute on node d.this with d.combined, up to
\* the awaited send or handler, or its return.
RestExecute(h, arrs, d) ==
    LET this == h[d.this]
        entered == [Log(d, [ev |-> "restExecute", this |-> d.this,
                            combined |-> d.combined, args |-> arrs[d.args]])
                       EXCEPT !.metadata = RestInherit(this, d.metadata)]
        error == canExecute(entered.menu, entered.metadata)
        gated == Log(entered, [ev |-> "canExecute", value |-> error,
                               permission |-> entered.metadata.permission,
                               nsfw |-> entered.metadata.nsfw,
                               channelType |-> entered.metadata.channelType])
    IN IF Truthy(error) THEN Return(gated, error)
       ELSE IF this.run.type = "string"
       THEN [Log(gated, [ev |-> "send",
                         content |-> parseVars(this.run.text, RunVars(arrs, entered), "???")])
                EXCEPT !.pc = "send"]
       ELSE [Log(gated, [ev |-> "run", fn |-> this.run.fn, this |-> d.this,
                         args |-> arrs[d.menu.args], combined |-> Str(d.combined)])
                EXCEPT !.pc = "run"]

\* The awaited menu.send settled: execute returns null, or rejects with it.
SendResume(d, ok) ==
    IF ok THEN Return(d, JsNull)
    ELSE [Log(d, [ev |-> "throw", error |-> "send"]) EXCEPT !.pc = "rejected"]

\* The awaited handler settled: it returned (error is null here), or it
\* threw error, which the catch clause turns into a message.  The clause
\* reads error.stack first, and that read throws when the handler threw
\* undefined or null: execute rejects with the TypeError of the read.
RunResume(d, error) ==
    IF error = JsNull THEN Return(d, JsNull)
    ELSE IF error.t = "undefined"
    THEN [Log(d, [ev |-> "throw", error |-> "TypeError", thrown |-> error])
             EXCEPT !.pc = "rejected"]
    ELSE LET errorMessage == IF error.t = "error" THEN error.stack ELSE error.str
         IN Return(Log(d, [ev |-> "caught", error |-> error]),
                   Str("There was an error while trying to execute that command!^^^"
                       \o errorMessage \o "^^^"))

(***************************************************************************)
(* Command.resolveInfo                                                     *)
(***************************************************************************)
\* The update that takes the usage of a node and leaves the inherited
\* permission, nsfw and channelType as they came.
InfoInheritUsageOnly(this, metadata) ==
    [metadata EXCEPT !.usage = IF this.usage # "" THEN this.usage ELSE @]

InfoInherit(this, metadata) ==
    [metadata EXCEPT
        !.permission = IF this.permission # -1 THEN this.permission ELSE @,
        !.nsfw = IF this.nsfw # Null THEN this.nsfw[1] ELSE @,
        !.channelType = IF this.channelType # "null" THEN this.channelType ELSE @,
        !.usage = IF this.usage # "" THEN this.usage ELSE @]

\* RestCommand.resolveInfoFinale
resolveInfoFinale(h, ref, metadata) ==
    LET this == h[ref]
    IN [type |-> "info", command |-> ref,
        keyedSubcommandInfo |-> <<>>, subcommandInfo |-> <<>>]
       @@ [metadata EXCEPT
              !.permission = IF this.permission # -1 THEN this.permission ELSE @,
              !.nsfw = IF this.nsfw # Null THEN this.nsfw[1] ELSE @,
              !.channelType = IF this.channelType # "null" THEN this.channelType ELSE @,
              !.usage = IF this.usage # "" THEN this.usage ELSE @]

\* The sub-command map as it is, the entries of the aliases included.
KeyedSubcommandsAll(h, map, i) == [threw |-> FALSE, map |-> map]

\* The sub-commands without the entries their aliases made.  Reading the
\* name of a sub-command that has none throws.
RECURSIVE KeyedSubcommands(_, _, _)
KeyedSubcommands(h, map, i) ==
    IF i > Len(map) THEN [threw |-> FALSE, map |-> <<>>]
    ELSE LET name == NameGetter(h[map[i].node])
             rest == KeyedSubcommands(h, map, i + 1)
         IN IF name.threw \/ rest.threw THEN [threw |-> TRUE, map |-> <<>>]
            ELSE IF map[i].key = name.value
            THEN [rest EXCEPT !.map = <<map[i]>> \o @]
            ELSE rest

\* The typed branches of a node under their labels.
GenericSubcommands(h, this) ==
    LET entry(label, ref) == IF ref # 0 THEN <<[key |-> label, node |-> ref]>> ELSE <<>>
    IN entry("<channel>", this.channel) \o entry("<role>", this.role)
       \o entry("<emote>", this.emote) \o entry("<message>", this.message)
       \o entry("<user>", this.user)
       \o entry("<id = <" \o this.idType \o ">>", this.id)
       \o entry("<number>", this.number)
       \o (IF this.any = 0 THEN <<>>
           ELSE IF IsCommand(h[this.any]) THEN entry("<any>", this.any)
           ELSE entry("<...>", this.any))

InvalidSubcommand(metadata) ==
    [type |-> "error",
     message |-> "No subcommand found by the argument list: ^"
                 \o Join(metadata.originalArgs, " ") \o "^"]

\* Command.resolveInfoInternal on node ref
RECURSIVE resolveInfoInternal(_, _, _, _)
resolveInfoInternal(h, ref, args, md) ==
    LET this == h[ref]
        metadata == InfoInherit(this, md)
        param == Head(args)
        go(label, next) ==
            IF next # 0
            THEN resolveInfoInternal(h, next, Tail(args),
                                     [metadata EXCEPT !.args = Append(@, label)])
            ELSE InvalidSubcommand(metadata)
        keyed == KeyedSubcommands(h, this.subcommands, 1)
    IN IF Len(args) = 0
       THEN IF keyed.threw THEN [type |-> "threw"]
            ELSE [type |-> "info", command |-> ref,
                  keyedSubcommandInfo |-> keyed.map,
                  subcommandInfo |-> GenericSubcommands(h, this)] @@ metadata
       ELSE IF param = "<channel>" THEN go("<channel>", this.channel)
       ELSE IF param = "<role>" THEN go("<role>", this.role)
       ELSE IF param = "<emote>" THEN go("<emote>", this.emote)
       ELSE IF param = "<message>" THEN go("<message>", this.message)
       ELSE IF param = "<user>" THEN go("<user>", this.user)
       ELSE IF param = "<id>" THEN go("<id = <" \o this.idType \o ">>", this.id)
       ELSE IF param = "<number>" THEN go("<number>", this.number)
       ELSE IF param = "<any>"
       THEN go("<any>", IF this.any # 0 /\ IsCommand(h[this.any]) THEN this.any ELSE 0)
       ELSE IF param = "<...>"
       THEN IF this.any # 0 /\ IsRestCommand(h[this.any])
            THEN resolveInfoFinale(h, this.any, [metadata EXCEPT !.args = Append(@, "<...>")])
            ELSE InvalidSubcommand(metadata)
       ELSE IF MapHas(this.subcommands, param)
       THEN go(param, MapNode(this.subcommands, param))
       ELSE InvalidSubcommand(metadata)

\* resolveInfo with one metadata object kept between the calls: the
\* argument trail of a call starts with the trail the call before left.
resolveInfoShared(h, ref, args, header) ==
    resolveInfoInternal(h, ref, args,
                        [permission |-> 0,
                         nsfw |-> FALSE,
                         channelType |-> "TextChannel",
                         header |-> header,
                         args |-> IF info.type = "info" THEN info.args ELSE <<>>,
                         usage |-> "",
                         originalArgs |-> args])

resolveInfo(h, ref, args, header) ==
    resolveInfoInternal(h, ref, args,
                        [permission |-> 0,
                         nsfw |-> FALSE,
                         channelType |-> "TextChannel",
                         header |-> header,
                         args |-> <<>>,
                         usage |-> "",
                         originalArgs |-> args])

(***************************************************************************)
(* handler.ts: the message handler                                         *)
(***************************************************************************)
\* Defaults that require no kind of channel.
defaultMetadataUnrestricted == [permission |-> 0, nsfw |-> FALSE, channelType |-> "null"]

defaultMetadata == [permission |-> 0, nsfw |-> FALSE, channelType |-> "TextChannel"]

\* The first position of a space in s at or after i, or 0.
RECURSIVE SpaceFrom(_, _)
SpaceFrom(s, i) ==
    IF i > Len(s) THEN 0
    ELSE IF CharAt(s, i) = " " THEN i
    ELSE SpaceFrom(s, i + 1)

\* The position after the run of spaces of s that starts at i.
RECURSIVE SpaceRunEnd(_, _)
SpaceRunEnd(s, i) ==
    IF i <= Len(s) /\ CharAt(s, i) = " " THEN SpaceRunEnd(s, i + 1) ELSE i

\* text.split(/ +/)
RECURSIVE Split(_)
Split(text) ==
    LET sp == SpaceFrom(text, 1)
    IN IF sp = 0 THEN <<text>>
       ELSE <<SubSeq(text, 1, sp - 1)>>
            \o Split(SubSeq(text, SpaceRunEnd(text, sp), Len(text)))

\* The default intercept rule: message.author!.bot !== null
ShouldIntercept(message) == message.author.bot # JsNull

\* The ID of the bot's own user.
ClientUserId == "BOT0000000000000000000000000"

\* new RegExp(^<@!?${client.user!._id}>$).test(text)
IsPing(text) ==
    text \in {"<@" \o ClientUserId \o ">", "<@!" \o ClientUserId \o ">"}

\* A dispatch that has not started.
Idle ==
    [pc |-> "idle", this |-> 0, args |-> 0, combined |-> "",
     menu |-> Undefined, metadata |-> Undefined, wait |-> Undefined,
     result |-> Undefined, log |-> <<>>]

\* The handler with one symbolicArgs array for all messages: the array of
\* the first dispatch is handed to every later one.
HandleMessageShared(cmds, arrs, message) ==
    LET channel == message.channel
        server == channel.server
        split == Split(SubSeq(message.content, Len(getPrefix(server)) + 1,
                              Len(message.content)))
        header == Head(split)
        args == Tail(split)
        n == Len(arrs)
        menu == [author |-> message.author, channel |-> channel,
                 member |-> message.member, message |-> message.content,
                 server |-> server, args |-> n + 1]
    IN [d |-> [Idle EXCEPT
                  !.pc = "execute",
                  !.this = MapNode(cmds, header),
                  !.args = n + 2,
                  !.menu = menu,
                  !.metadata =
                      [header |-> header, args |-> n + 3,
                       symbolicArgs |-> 4]
                      @@ defaultMetadata,
                  !.log = <<[ev |-> "listener", header |-> header, args |-> args]>>],
        arrays |-> arrs \o <<(<<>>), args, args, (<<>>)>>]

\* The handler on message, up to its call of command.execute or its end:
\* [d, arrays].  The arrays of the dispatch are created here.
HandleMessage(cmds, arrs, message) ==
    LET channel == message.channel
        server == channel.server
        text == message.content
        isDM == channel.channel_type = "DirectMessage"
        prefix == getPrefix(server)
        split == IF isDM THEN Split(text)
                 ELSE Split(SubSeq(text, Len(prefix) + 1, Len(text)))
        header == Head(split)
        args == Tail(split)
        n == Len(arrs)
        menu == [author |-> message.author, channel |-> channel,
                 member |-> message.member, message |-> message.content,
                 server |-> server, args |-> n + 1]
        call == [d |-> [Idle EXCEPT
                           !.pc = "execute",
                           !.this = MapNode(cmds, header),
                           !.args = n + 2,
                           !.menu = menu,
                           !.metadata =
                               [header |-> header, args |-> n + 3, symbolicArgs |-> n + 4]
                               @@ defaultMetadata,
                           !.log = <<[ev |-> "listener", header |-> header, args |-> args]>>],
                 arrays |-> arrs \o <<(<<>>), args, args, (<<>>)>>]
        end(event) == [d |-> [Idle EXCEPT !.pc = "done", !.log = <<event>>],
                       arrays |-> arrs]
    IN IF ShouldIntercept(message) THEN end([ev |-> "intercepted"])
       ELSE IF isDM
       THEN IF MapHas(cmds, header) THEN call
            ELSE end([ev |-> "reply",
                      content |-> Str("I couldn't find the command or alias that starts with ^"
                                      \o header \o "^. To see the list of commands, type ^help^")])
       ELSE IF IsPing(text)
       THEN end([ev |-> "reply",
                 content |-> Str("My prefix on this server is ^" \o prefix \o "^.")])
       ELSE IF StartsAt(text, prefix, 1)
       THEN IF MapHas(cmds, header) THEN call ELSE end([ev |-> "ignored"])
       ELSE end([ev |-> "ignored"])

\* command.execute returned result to the handler.
HandlerResume(d) ==
    IF Truthy(d.result)
    THEN [Log(d, [ev |-> "reply", content |-> d.result]) EXCEPT !.pc = "done"]
    ELSE [d EXCEPT !.pc = "done"]

(***************************************************************************)
(* The command trees and the messages of the dispatch specification        *)
(***************************************************************************)
\* The longest argument list of a message, and the highest permission level
\* of a caller.
MaxArgs == 2

MaxLevel == 1

Header == "cmd"

Say == "say"

IdA == "aaaaaaaaaaaaaaaaaaaaaaaaaa"

IdZero == "00000000000000000000000000"

TokChannel == "<#" \o IdA \o ">"

TokUser == "<@" \o IdA \o ">"

TokLink == "https://app.revolt.chat/server/" \o IdA \o "/" \o IdA

\* The arguments of the messages: the name and the alias of a sub-command,
\* a mention, link or ID of each kind (the ID of zeros is a number too), a
\* number, a word and a marker of resolveInfo.
Tokens == {"p", "q", TokChannel, TokUser, TokLink, IdZero, "42", "x", "<any>"}

\* The arguments of the messages to the second command.
Words == {"a", "b", ""}

\* The arguments of the messages that try the number branch.
NumberTokens == {"42", "-7", "Infinity", "-Infinity", "+Infinity", "", "x", IdZero}

ArgListsOf(tokens) == UNION {[1..n -> tokens] : n \in 0..MaxArgs}

Fn(name) == [type |-> "function", fn |-> name]

Text(s) == [type |-> "string", text |-> s]

\* What the root, the nodes below it and the leaves may specify of the
\* inherited properties: every property is specified at two levels with
\* different values, and left alone by some choice at every level.
RootChoices ==
    {NoOptions, [permission |-> 1, nsfw |-> TRUE, channelType |-> "DirectMessage"]}

MidChoices ==
    {NoOptions, [permission |-> 0, nsfw |-> FALSE], [channelType |-> "TextChannel"]}

LeafChoices ==
    {NoOptions, [permission |-> 1], [nsfw |-> TRUE, channelType |-> "DirectMessage"]}

\* The heap with the object a constructor made.
New(c) == Append(c.heap, c.node)

\* The command trees: the leaves 1..3, the nodes 4..9 above them and the
\* root 10 of the first command, and the root 11 of the second, whose rest
\* leaf takes every argument; the properties ovL, ovM and ovR on each level.
\* Every branch kind and every ID kind occurs; the root has sub-commands
\* whose keys are a channel mention, a number and the marker "<any>".
Tree(ovR, ovM, ovL) ==
    LET h1 == New(CommandConstructor(<<>>, ovL @@ [run |-> Fn("leaf")]))
        h2 == New(RestCommandConstructor(h1, ovL @@ [run |-> Fn("rest")]))
        h3 == New(RestCommandConstructor(h2, ovL @@ [run |-> Text("%author% ran %command%")]))
        h4 == New(CommandConstructor(h3,
                  ovM @@ [run |-> Fn("mid"), channel |-> 1, number |-> 1, any |-> 2,
                          role |-> 1, id |-> "role"]))
        h5 == New(CommandConstructor(h4,
                  ovM @@ [run |-> Text("pong"), any |-> 3, guild |-> 1, id |-> "server"]))
        h6 == New(NamedCommandConstructor(h5,
                  ovM @@ [aliases |-> <<"q">>, run |-> Text("pong"), user |-> 1,
                          emote |-> 1, id |-> "emote"]))
        h7 == New(NamedCommandConstructor(h6,
                  ovM @@ [run |-> Fn("named"), number |-> 1, message |-> 1,
                          id |-> "message"]))
        h8 == New(NamedCommandConstructor(h7,
                  ovM @@ [channel |-> 1, id |-> "channel"]))
        h9 == New(NamedCommandConstructor(h8, ovM @@ [run |-> Fn("marked")]))
        h10 == New(NamedCommandConstructor(h9,
                   ovR @@ [nameOverride |-> Header,
                           subcommands |-> <<[key |-> "p", node |-> 6],
                                             [key |-> TokChannel, node |-> 7],
                                             [key |-> "42", node |-> 8],
                                             [key |-> "<any>", node |-> 9]>>,
                           channel |-> 4, message |-> 4, user |-> 4, id |-> "user",
                           number |-> 4, any |-> 5]))
    IN New(NamedCommandConstructor(h10, ovR @@ [nameOverride |-> Say, any |-> 2]))

Trees == {Tree(r, m, l) : r \in RootChoices, m \in MidChoices, l \in LeafChoices}

\* The received messages: in a server text channel or in a direct-message
\* channel, from a user of some permission level, or from a bot.
\* Neither channel is marked NSFW.
TextChannel ==
    [t |-> "channel", id |-> IdA, channel_type |-> "TextChannel", nsfw |-> FALSE,
     server |-> [t |-> "server", id |-> IdA]]

DMChannel ==
    [t |-> "channel", id |-> IdA, channel_type |-> "DirectMessage", nsfw |-> FALSE,
     server |-> Undefined]

Author(level) == [t |-> "user", id |-> IdA, bot |-> JsNull, level |-> level]

Bot == [t |-> "user", id |-> IdA, bot |-> [t |-> "bot"], level |-> 0]

Contents(channel, tokens) ==
    LET prefix == IF channel.channel_type = "DirectMessage" THEN "" ELSE getPrefix(channel.server)
    IN {prefix \o Join(<<Header>> \o list, " ") : list \in ArgListsOf(tokens)}
       \cup {prefix \o Join(<<Say>> \o list, " ") : list \in ArgListsOf(Words)}
       \cup {prefix \o "nope", Header, "<@" \o ClientUserId \o ">"}

MessagesOf(tokens) ==
    {[author |-> Author(l), content |-> c, member |-> [t |-> "member"],
      channel |-> TextChannel] :
        l \in 0..MaxLevel, c \in Contents(TextChannel, tokens)}
    \cup
    {[author |-> Author(l), content |-> c, member |-> Undefined, channel |-> DMChannel] :
        l \in 0..MaxLevel, c \in Contents(DMChannel, tokens)}
    \cup
    {[author |-> Bot, content |-> Header, member |-> Undefined, channel |-> DMChannel]}

Messages == MessagesOf(Tokens)

NumberMessages == MessagesOf(NumberTokens)

\* What the platform may answer to an awaited lookup, and to the reads of
\* the server table and of the role table of a server.
LookupEnvs ==
    [channel : {"none", "TextChannel", "VoiceChannel"}, message : BOOLEAN, user : BOOLEAN]

SyncEnvs == [guild : BOOLEAN, roles : {"undefined", "has", "hasnot"}]

\* What a handler may throw, or reject with: an Error, a string, or no
\* value at all (throw undefined, Promise.reject()).
Failures == {[t |-> "error", stack |-> "Error: boom"], Str("boom"), Undefined}

\* The argument lists of resolveInfo.
Markers ==
    {"<channel>", "<role>", "<emote>", "<message>", "<user>", "<id>", "<number>",
     "<any>", "<...>", "p", "q", TokChannel, "42", "x"}

MarkerLists == UNION {[1..n -> Markers] : n \in 0..MaxArgs}

(***************************************************************************)
(* The dispatch specification                                              *)
(***************************************************************************)
NoInfo == [type |-> "none"]

NoLast == [op |-> "none"]

Init ==
    /\ heap \in Trees
    /\ commands = <<[key |-> Header, node |-> Len(heap) - 1],
                    [key |-> Say, node |-> Len(heap)]>>
    /\ arrays = <<>>
    /\ disp = <<Idle>>
    /\ info = NoInfo
    /\ last = NoLast
    /\ names = [r \in DOMAIN heap |->
                   [override |-> r > Len(heap) - 2,
                    sets |-> IF r <= Len(heap) - 2 /\ heap[r].cls = "NamedCommand"
                             THEN 1 ELSE 0]]
    /\ config = Launched

\* The handler receives a message.
OnMessage(m, messages) ==
    /\ disp[m].pc = "idle"
    /\ info = NoInfo
    /\ \E message \in messages :
          LET r == HandleMessage(commands, arrays, message)
          IN /\ disp' = [disp EXCEPT ![m] = r.d]
             /\ arrays' = r.arrays
    /\ UNCHANGED <<heap, commands, info, last, names, config>>

\* One call of Command.execute.
Execute(m) ==
    /\ disp[m].pc = "execute"
    /\ \E env \in IF heap[disp[m].this].idType \in {"role", "server"}
                  THEN SyncEnvs ELSE {[guild |-> FALSE, roles |-> "undefined"]} :
          LET r == CommandExecute(heap, arrays, disp[m], env)
          IN /\ disp' = [disp EXCEPT ![m] = r.d]
             /\ arrays' = r.arrays
    /\ UNCHANGED <<heap, commands, info, last, names, config>>

\* The call of RestCommand.execute.
ExecuteRest(m) ==
    /\ disp[m].pc = "restExecute"
    /\ disp' = [disp EXCEPT ![m] = RestExecute(heap, arrays, disp[m])]
    /\ UNCHANGED <<heap, commands, arrays, info, last, names, config>>

\* An awaited lookup is answered.
LookupDone(m) ==
    /\ disp[m].pc = "lookup"
    /\ \E env \in LookupEnvs :
          LET r == LookupResume(arrays, disp[m], env)
          IN /\ disp' = [disp EXCEPT ![m] = r.d]
             /\ arrays' = r.arrays
    /\ UNCHANGED <<heap, commands, info, last, names, config>>

\* The awaited send of a string run settles.
SendDone(m) ==
    /\ disp[m].pc = "send"
    /\ \E ok \in BOOLEAN : disp' = [disp EXCEPT ![m] = SendResume(disp[m], ok)]
    /\ UNCHANGED <<heap, commands, arrays, info, last, names, config>>

\* The awaited handler of a run settles.
RunDone(m) ==
    /\ disp[m].pc = "run"
    /\ \E error \in {JsNull} \cup Failures :
          disp' = [disp EXCEPT ![m] = RunResume(disp[m], error)]
    /\ UNCHANGED <<heap, commands, arrays, info, last, names, config>>

\* The handler has the result of execute.
Replied(m) ==
    /\ disp[m].pc = "returned"
    /\ disp' = [disp EXCEPT ![m] = HandlerResume(disp[m])]
    /\ UNCHANGED <<heap, commands, arrays, info, last, names, config>>

\* The first of the registered commands.
Root == MapNode(commands, Header)

\* A call of resolveInfo on the root.
Describe ==
    /\ info = NoInfo
    /\ \A m \in DOMAIN disp : disp[m].pc = "idle"
    /\ \E args \in MarkerLists : info' = resolveInfo(heap, Root, args, Header)
    /\ UNCHANGED <<heap, commands, arrays, disp, last, names, config>>

NextOf(messages) ==
    \/ \E m \in DOMAIN disp : OnMessage(m, messages)
    \/ \E m \in DOMAIN disp : Execute(m)
    \/ \E m \in DOMAIN disp : ExecuteRest(m)
    \/ \E m \in DOMAIN disp : LookupDone(m)
    \/ \E m \in DOMAIN disp : SendDone(m)
    \/ \E m \in DOMAIN disp : RunDone(m)
    \/ \E m \in DOMAIN disp : Replied(m)
    \/ Describe

Next == NextOf(Messages)

Spec == Init /\ [][Next]_vars

\* The same, on the messages that try the number branch.
NextNumber == NextOf(NumberMessages)

SpecNumber == Init /\ [][NextNumber]_vars

(***************************************************************************)
(* The construction specification: objects are made one after the other,   *)
(* the later ones with the earlier ones as their sub-commands              *)
(***************************************************************************)
\* The most objects made, and the most assignments of the name of an object.
MaxNodes == 3

MaxSets == 2

\* The names sub-commands are declared under, one of them an array index,
\* and the alias lists of the sub-commands.
Names == {"z", "1"}

AliasChoices == {<<>>, <<"k">>, <<"k", "z">>}

NamedRefs(h) == {r \in DOMAIN h : h[r].cls = "NamedCommand"}

\* The objects { name: sub-command, ... } over the sub-commands of heap h,
\* their properties in creation order.
SubcommandObjects(h) ==
    UNION {{o \in [1..n -> [key : Names, node : NamedRefs(h)]] :
               \A i, j \in 1..n : i # j => o[i].key # o[j].key} :
           n \in 1..Cardinality(Names)}

\* The options of a sub-command, and of a command with sub-commands.
LeafOptions ==
    {[aliases |-> a] : a \in AliasChoices}
    \cup {[aliases |-> a, nameOverride |-> "n"] : a \in AliasChoices}

ParentOptions(h) == {[subcommands |-> o] : o \in SubcommandObjects(h)}

\* How often ref occurs in a list of references.
Occurrences(list, ref) == Cardinality({i \in DOMAIN list : list[i] = ref})

\* A constructor has ended as c says: the object it made is in the heap
\* unless it threw; the sub-commands it named stay named either way.  No
\* name is assigned more than MaxSets times.
Constructed(op, options, c) ==
    /\ \A r \in DOMAIN names : names[r].sets + Occurrences(c.tried, r) <= MaxSets
    /\ heap' = IF c.threw THEN c.heap ELSE Append(c.heap, c.node)
    /\ last' = [op |-> op, options |-> options, threw |-> c.threw,
                warnings |-> c.warnings, tried |-> c.tried,
                ref |-> IF c.threw THEN 0 ELSE Len(heap) + 1, before |-> heap]
    /\ names' = [r \in DOMAIN heap' |->
                    IF r \in DOMAIN names
                    THEN [names[r] EXCEPT !.sets = @ + Occurrences(c.tried, r)]
                    ELSE [override |-> Has(options, "nameOverride"), sets |-> 0]]
    /\ UNCHANGED <<commands, arrays, disp, info, config>>

InitBuild ==
    /\ heap = <<>>
    /\ commands = <<>>
    /\ arrays = <<>>
    /\ disp = <<>>
    /\ info = NoInfo
    /\ last = NoLast
    /\ names = <<>>
    /\ config = NotLaunched

\* new NamedCommand(options)
NewNamedCommand(options) ==
    /\ Len(heap) < MaxNodes
    /\ Constructed("NamedCommand", options, NamedCommandConstructor(heap, options))

\* new Command(options)
NewCommand(options) ==
    /\ Len(heap) < MaxNodes
    /\ Constructed("Command", options, CommandConstructor(heap, options))

NextBuild ==
    \/ \E options \in LeafOptions : NewNamedCommand(options)
    \/ \E options \in ParentOptions(heap) : NewCommand(options)

SpecBuild == InitBuild /\ [][NextBuild]_vars

(***************************************************************************)
(* The name specification: the name of a NamedCommand is assigned and read *)
(***************************************************************************)
\* The values a name is assigned.
NameValues == {"b", "c"}

\* command.name = value
SetName(n, value) ==
    /\ names[n].sets < MaxSets
    /\ LET set == NameSetter(heap[n], value)
       IN /\ heap' = [heap EXCEPT ![n] = set.node]
          /\ last' = [op |-> "setName", ref |-> n, value |-> value,
                      threw |-> set.threw, before |-> heap]
    /\ names' = [names EXCEPT ![n].sets = @ + 1]
    /\ UNCHANGED <<commands, arrays, disp, info, config>>

\* command.name
GetName(n) ==
    /\ LET get == NameGetter(heap[n])
       IN last' = [op |-> "getName", ref |-> n, value |-> get.value,
                   threw |-> get.threw, before |-> heap]
    /\ UNCHANGED <<heap, commands, arrays, disp, info, names, config>>

\* The options of the objects of the name specification.
NameOptions == {NoOptions, [nameOverride |-> "n"]}

NextName ==
    \/ \E options \in NameOptions : NewNamedCommand(options)
    \/ \E options \in ParentOptions(heap) : NewCommand(options)
    \/ \E n \in NamedRefs(heap), value \in NameValues : SetName(n, value)
    \/ \E n \in NamedRefs(heap) : GetName(n)

SpecName == InitBuild /\ [][NextName]_vars

(***************************************************************************)
(* The gate                                                                *)
(***************************************************************************)
\* The positions of the events of some kinds in the log of a dispatch.
Events(d, kinds) == {i \in DOMAIN d.log : d.log[i].ev \in kinds}

\* The leaf actions of a dispatch: the sends of a template and the calls of
\* a handler.
LeafActions(d) == Events(d, {"send", "run"})

\* execute has returned to the handler.
Returned(d) == d.pc \in {"returned", "done"} /\ Events(d, {"return"}) # {}

\* C1: a leaf action of Command.execute or RestCommand.execute happens only
\* after canExecute returned null for the accumulated metadata; when
\* canExecute returns a message, execute returns exactly that message, no
\* template is sent and no handler is called.
GateBeforeLeafAction ==
    \A m \in DOMAIN disp :
        LET d == disp[m]
        IN /\ \A i \in LeafActions(d) :
                 /\ canExecute(d.menu, d.metadata) = JsNull
                 /\ i > 1
                 /\ d.log[i - 1].ev = "canExecute"
                 /\ d.log[i - 1].value = JsNull
           /\ \A i \in Events(d, {"canExecute"}) :
                 /\ d.log[i].value = canExecute(d.menu, d.metadata)
                 /\ d.log[i].value # JsNull =>
                       /\ LeafActions(d) = {}
                       /\ Returned(d)
                       /\ d.result = d.log[i].value
                       /\ d.result.t = "string"

\* The handler of a rest leaf that requires permission level 1 was called.
GateBeforeLeafActionWitness ==
    \E m \in DOMAIN disp :
        LET d == disp[m]
        IN /\ Events(d, {"canExecute"}) # {}
           /\ Events(d, {"run"}) # {}
           /\ heap[d.this].cls = "RestCommand"
           /\ d.metadata.permission = 1

(***************************************************************************)
(* Inheritance                                                             *)
(***************************************************************************)
\* The nodes a dispatch has entered, root first.
Path(d) ==
    LET entries == SelectSeq(d.log, LAMBDA e : e.ev \in {"execute", "restExecute"})
    IN [i \in DOMAIN entries |-> entries[i].this]

Front(path) == SubSeq(path, 1, Len(path) - 1)

\* The value of the deepest node of a path that specifies the property, or
\* the default of the root.
RECURSIVE DeepestPermission(_, _)
DeepestPermission(h, path) ==
    IF path = <<>> THEN 0
    ELSE IF h[path[Len(path)]].permission # -1 THEN h[path[Len(path)]].permission
    ELSE DeepestPermission(h, Front(path))

RECURSIVE DeepestNsfw(_, _)
DeepestNsfw(h, path) ==
    IF path = <<>> THEN FALSE
    ELSE IF h[path[Len(path)]].nsfw # Null THEN h[path[Len(path)]].nsfw[1]
    ELSE DeepestNsfw(h, Front(path))

RECURSIVE DeepestChannelType(_, _)
DeepestChannelType(h, path) ==
    IF path = <<>> THEN "TextChannel"
    ELSE IF h[path[Len(path)]].channelType # "null" THEN h[path[Len(path)]].channelType
    ELSE DeepestChannelType(h, Front(path))

\* The node under a label of the argument list resolveInfo returns.
Child(node, label) ==
    CASE label = "<channel>" -> node.channel
      [] label = "<role>" -> node.role
      [] label = "<emote>" -> node.emote
      [] label = "<message>" -> node.message
      [] label = "<user>" -> node.user
      [] label = "<number>" -> node.number
      [] label \in {"<any>", "<...>"} -> node.any
      [] StartsAt(label, "<id = ", 1) -> node.id
      [] OTHER -> MapNode(node.subcommands, label)

\* The nodes under a list of labels, from node ref.
RECURSIVE Walk(_, _, _)
Walk(h, ref, labels) ==
    IF labels = <<>> THEN <<ref>>
    ELSE <<ref>> \o Walk(h, Child(h[ref], Head(labels)), Tail(labels))

\* C2: the permission, nsfw and channelType that execute hands to the gate
\* and that resolveInfo returns at the terminal node are, each on its own,
\* the value of the deepest node on the path from the root that specifies
\* the property, and the defaults 0, false and TextChannel when none does.
DeepestSpecifiedWins ==
    /\ \A m \in DOMAIN disp :
          \A i \in Events(disp[m], {"canExecute"}) :
              LET e == disp[m].log[i]
                  path == Path(disp[m])
              IN /\ e.permission = DeepestPermission(heap, path)
                 /\ e.nsfw = DeepestNsfw(heap, path)
                 /\ e.channelType = DeepestChannelType(heap, path)
    /\ info.type = "info" =>
          LET path == Walk(heap, Root, info.args)
          IN /\ path[Len(path)] = info.command
             /\ info.permission = DeepestPermission(heap, path)
             /\ info.nsfw = DeepestNsfw(heap, path)
             /\ info.channelType = DeepestChannelType(heap, path)

\* A gate three nodes deep that got its channel type from the root and its
\* permission and nsfw from the node below the root, which overrides the
\* root's.
DeepestSpecifiedWinsWitness ==
    \E m \in DOMAIN disp :
        \E i \in Events(disp[m], {"canExecute"}) :
            LET e == disp[m].log[i]
                path == Path(disp[m])
            IN /\ Len(path) = 3
               /\ heap[path[1]].permission = 1
               /\ heap[path[1]].nsfw = Some(TRUE)
               /\ heap[path[2]].nsfw = Some(FALSE)
               /\ heap[path[3]].permission = -1
               /\ e.permission = 0
               /\ e.nsfw = FALSE
               /\ e.channelType = "DirectMessage"

(***************************************************************************)
(* The branches of Command.execute                                         *)
(***************************************************************************)
\* The calls of Command.execute of a dispatch that took an argument off.
Taking(d) == {i \in Events(d, {"execute"}) : Len(d.log[i].args) > 0}

\* The call of execute, on a Command or on a RestCommand, that follows the
\* event at i: the node, and what it was handed.
NextCall(d, i) ==
    IF i + 1 \in DOMAIN d.log
    THEN [made |-> d.log[i + 1].ev \in {"execute", "restExecute"},
          this |-> d.log[i + 1].this]
    ELSE [made |-> d.pc \in {"execute", "restExecute"}, this |-> d.this]

\* C3: when the leftmost argument is a key of the node's sub-command map, the
\* sub-command under that key is executed next, also when the argument has
\* the form of a channel mention, a link, an ID or a number and the node has
\* that typed branch; no lookup is made for it.
NamedBeforeTyped ==
    \A m \in DOMAIN disp :
        \A i \in Taking(disp[m]) :
            LET d == disp[m]
                e == d.log[i]
                param == Head(e.args)
                this == heap[e.this]
            IN MapHas(this.subcommands, param) =>
                 /\ d.log[i + 1] = [ev |-> "match", branch |-> "subcommand", param |-> param]
                 /\ NextCall(d, i + 1).made
                 /\ NextCall(d, i + 1).this = MapNode(this.subcommands, param)
                 /\ i + 1 \notin Events(d, {"lookup"})

\* The root, which has a channel branch, was handed a channel mention that
\* is the key of one of its sub-commands, and that sub-command has executed.
NamedBeforeTypedWitness ==
    \E m \in DOMAIN disp :
        \E i \in Taking(disp[m]) :
            LET d == disp[m]
                e == d.log[i]
            IN /\ Head(e.args) = TokChannel
               /\ MatchChannel(Head(e.args))
               /\ heap[e.this].channel # 0
               /\ MapHas(heap[e.this].subcommands, TokChannel)
               /\ i + 2 \in DOMAIN d.log
               /\ d.log[i + 2].ev = "execute"
               /\ d.log[i + 2].this = MapNode(heap[e.this].subcommands, TokChannel)

\* The last n elements of a list.
LastOf(list, n) == SubSeq(list, Len(list) - n + 1, Len(list))

\* C7: a rest leaf is handed the argument taken off and the arguments left,
\* joined by single spaces ("a" before "b", "c" gives "a b c"); its handler
\* sees every one of these arguments in the call context, and no node is
\* entered after the rest leaf.
RestTakesAll ==
    \A m \in DOMAIN disp :
        \A i \in Taking(disp[m]) :
            LET d == disp[m]
                e == d.log[i]
                strs == [k \in DOMAIN e.args |-> Str(e.args[k])]
            IN d.log[i + 1].ev = "match" /\ d.log[i + 1].branch = "rest" =>
                 /\ d.combined = Join(e.args, " ")
                 /\ NextCall(d, i + 1) = [made |-> TRUE, this |-> heap[e.this].any]
                 /\ Events(d, {"execute", "restExecute", "match", "lookup"}) \subseteq 1..(i + 2)
                 /\ \A j \in Events(d, {"restExecute"}) :
                       d.log[j].combined = Join(e.args, " ")
                 /\ \A j \in Events(d, {"run"}) :
                       /\ d.log[j].combined = Str(Join(e.args, " "))
                       /\ Len(d.log[j].args) >= Len(e.args)
                       /\ LastOf(d.log[j].args, Len(e.args)) = strs

\* The handler of a rest leaf was called with "a b" for the arguments "a"
\* and "b".
RestTakesAllWitness ==
    \E m \in DOMAIN disp :
        \E j \in Events(disp[m], {"run"}) :
            LET d == disp[m]
            IN /\ heap[d.this].cls = "RestCommand"
               /\ d.log[1].args = <<"a", "b">>
               /\ d.log[j].combined = Str("a b")
               /\ d.log[j].args = <<Str("a"), Str("b")>>

\* No branch of a node takes the argument: it is no key of the sub-command
\* map, and every typed branch is absent or fails its test.
NoBranch(this, param) ==
    /\ ~MapHas(this.subcommands, param)
    /\ this.channel = 0 \/ ~MatchChannel(param)
    /\ this.message = 0 \/ ~MatchMessageLink(param)
    /\ this.user = 0 \/ ~MatchUser(param)
    /\ this.id = 0 \/ this.idType = "null" \/ ~MatchId(param)
    /\ this.number = 0 \/ ~AcceptsNumber(param)
    /\ this.any = 0

\* C9: when no branch of the node takes the leftmost argument, execute
\* returns the error that names the header, the symbolic arguments so far
\* and the argument in quotes; the gate is not evaluated, nothing is sent and
\* no handler is called.
NoMatchReturnsError ==
    \A m \in DOMAIN disp :
        \A i \in Taking(disp[m]) :
            LET d == disp[m]
                e == d.log[i]
                param == Head(e.args)
                trail == Append(e.symbolicArgs, "\"" \o param \o "\"")
            IN NoBranch(heap[e.this], param) =>
                 /\ Returned(d)
                 /\ d.result.t = "string"
                 /\ Includes(d.result.str, "No valid command sequence matching")
                 /\ Includes(d.result.str, d.metadata.header \o " " \o Join(trail, " "))
                 /\ Events(d, {"canExecute", "send", "run"}) = {}
                 /\ Events(d, {"execute", "restExecute", "lookup"}) \subseteq 1..i

\* A sub-command without a branch for "x" returned the error with the
\* header, its own name and "x" in quotes.
NoMatchReturnsErrorWitness ==
    \E m \in DOMAIN disp :
        \E i \in Taking(disp[m]) :
            LET d == disp[m]
                e == d.log[i]
            IN /\ NoBranch(heap[e.this], Head(e.args))
               /\ e.symbolicArgs = <<"p">>
               /\ d.result = Str("No valid command sequence matching ^cmd p \"x\"^ found.")

\* The values a dispatch has pushed to the call context: one for every
\* matched argument that is not the name of a sub-command.
Pushed(d) == {k \in Events(d, {"match"}) : d.log[k].branch # "subcommand"}

\* C10: when a lookup of a channel, a message, a user or an ID answers with a
\* not-found string, execute returns that string as it is; no branch after
\* it is tried, no value is pushed to the call context for the argument and
\* no leaf action runs.
NotFoundReturned ==
    \A m \in DOMAIN disp :
        \A j \in Events(disp[m], {"found"}) :
            LET d == disp[m]
            IN d.log[j].value.t = "string" =>
                 /\ Returned(d)
                 /\ d.result = d.log[j].value
                 /\ d.log[j + 1] = [ev |-> "return", value |-> d.log[j].value]
                 /\ Events(d, {"match", "execute", "restExecute", "canExecute",
                               "send", "run", "nomatch", "lookup"}) \subseteq 1..j
                 /\ Len(arrays[d.menu.args]) = Cardinality(Pushed(d))
                 /\ \A v \in 1..Len(arrays[d.menu.args]) :
                       arrays[d.menu.args][v] # d.log[j].value

\* No channel was found for a mention after a first lookup had succeeded,
\* and execute returned the answer.
NotFoundReturnedWitness ==
    \E m \in DOMAIN disp :
        \E j \in Events(disp[m], {"found"}) :
            LET d == disp[m]
            IN /\ d.log[j].fn = "getChannelByID"
               /\ d.log[j].value = Str("No channel found by the ID of ^" \o IdA \o "^!")
               /\ Returned(d)
               /\ d.result = d.log[j].value
               /\ Cardinality(Pushed(d)) = 1

(***************************************************************************)
(* The number branch                                                       *)
(***************************************************************************)
\* The arguments the number branch has taken.
NumberMatches(d) == {k \in Events(d, {"match"}) : d.log[k].branch = "number"}

\* C8: the number branch takes an argument only if it parses as a finite
\* number: "Infinity" and "-Infinity" are never taken, and no argument it
\* takes puts an infinite value or NaN into the call context.
NumberBranchFinite ==
    \A m \in DOMAIN disp :
        /\ \A k \in NumberMatches(disp[m]) :
              /\ disp[m].log[k].param \notin {"Infinity", "-Infinity"}
              /\ ToNumber(disp[m].log[k].param).kind = "finite"
        /\ Events(disp[m], {"listener"}) # {} =>
              \A v \in DOMAIN arrays[disp[m].menu.args] :
                  arrays[disp[m].menu.args][v].t = "number" =>
                      arrays[disp[m].menu.args][v].num.kind = "finite"

(***************************************************************************)
(* Aliases                                                                 *)
(***************************************************************************)
\* The last operation made a Command from sub-commands, and did not throw.
Built == last.op = "Command" /\ ~last.threw

\* The aliases of the sub-command declared at position i of object obj.
AliasesOf(obj, i) ==
    {heap[obj[i].node].aliases[a] : a \in DOMAIN heap[obj[i].node].aliases}

\* The direct names of obj, and the keys that an alias of one sub-command
\* and the direct name or an alias of another both claim.
DirectNames(obj) == {obj[i].key : i \in DOMAIN obj}

Claims(obj, i, key) == obj[i].key = key \/ key \in AliasesOf(obj, i)

Collisions(obj) ==
    {key \in UNION {AliasesOf(obj, i) : i \in DOMAIN obj} :
        \E i, j \in DOMAIN obj :
            i # j /\ key \in AliasesOf(obj, i) /\ Claims(obj, j, key)}

\* The statement C4 makes of every alias: a construction that completes
\* binds each alias of each sub-command, and its direct name, to that
\* sub-command.
EveryAliasReachesItsNode ==
    Built =>
        LET obj == last.options.subcommands
            map == heap[last.ref].subcommands
        IN \A i \in DOMAIN obj :
             /\ MapNode(map, obj[i].key) = obj[i].node
             /\ \A alias \in AliasesOf(obj, i) :
                   MapHas(map, alias) /\ MapNode(map, alias) = obj[i].node

\* C4: after a parent Command is constructed, its sub-command map returns
\* the same object for the direct name of a sub-command and for each of its
\* aliases that no sibling claims, as a direct name or as an alias.
FreeAliasReachesItsNode ==
    Built =>
        LET obj == last.options.subcommands
            map == heap[last.ref].subcommands
        IN \A i \in DOMAIN obj :
             /\ MapNode(map, obj[i].key) = obj[i].node
             /\ \A alias \in AliasesOf(obj, i) \ Collisions(obj) :
                   MapHas(map, alias) /\ MapNode(map, alias) = obj[i].node

\* A parent was made of two sub-commands, one of them with an alias that
\* its sibling does not claim, and its map has the same object under the
\* name and under the alias.
FreeAliasReachesItsNodeWitness ==
    /\ Built
    /\ LET obj == last.options.subcommands
           map == heap[last.ref].subcommands
       IN /\ Len(obj) = 2
          /\ obj[1].key = "z"
          /\ obj[2].key = "1"
          /\ obj[1].node # obj[2].node
          /\ heap[obj[1].node].aliases = <<"k">>
          /\ Collisions(obj) = {}
          /\ MapNode(map, "k") = obj[1].node
          /\ MapNode(map, "z") = obj[1].node

\* The position of the sub-command that declares key first, the properties
\* of obj taken in the order they were written.
FirstDeclared(obj, key) ==
    CHOOSE i \in DOMAIN obj :
        /\ Claims(obj, i, key)
        /\ \A j \in DOMAIN obj : Claims(obj, j, key) => i <= j

\* The statement C5 makes of the binding: in a construction that completes,
\* a key two sub-commands claim is bound to the one declared earlier.
EarlierDeclaredWins ==
    Built =>
        LET obj == last.options.subcommands
            map == heap[last.ref].subcommands
        IN \A key \in Collisions(obj) :
               MapNode(map, key) = obj[FirstDeclared(obj, key)].node

\* Property i of obj is reached before property j by for...in: array
\* indices in ascending order, then the other names as written.
ReachedBefore(obj, i, j) ==
    IF IsArrayIndex(obj[i].key) /\ IsArrayIndex(obj[j].key)
    THEN DecimalValue(obj[i].key) <= DecimalValue(obj[j].key)
    ELSE IF IsArrayIndex(obj[i].key) THEN TRUE
    ELSE IF IsArrayIndex(obj[j].key) THEN FALSE
    ELSE i <= j

\* The position of the sub-command that has key for a direct name or, when
\* none has, of the sub-command with the alias key that for...in reaches
\* first.
Winner(obj, key) ==
    IF key \in DirectNames(obj)
    THEN CHOOSE i \in DOMAIN obj : obj[i].key = key
    ELSE CHOOSE i \in DOMAIN obj :
             /\ key \in AliasesOf(obj, i)
             /\ \A j \in DOMAIN obj : key \in AliasesOf(obj, j) => ReachedBefore(obj, i, j)

\* C5: a collision of an alias with a sibling's direct name or alias only
\* warns: the construction of the parent throws exactly when it assigns the
\* name of a sub-command that has one already.  A key that is a direct name
\* stays bound to the sub-command of that name, and a key that only aliases
\* claim to the sub-command for...in reaches first.
CollisionOnlyWarns ==
    last.op = "Command" =>
        LET obj == last.options.subcommands
            tried == last.tried
            r == tried[Len(tried)]
        IN /\ last.threw <=>
                 \/ last.before[r].originalCommandName # Null
                 \/ Occurrences(tried, r) > 1
           /\ ~last.threw =>
                 /\ \A key \in Collisions(obj) :
                       MapNode(heap[last.ref].subcommands, key) = obj[Winner(obj, key)].node
                 /\ Collisions(obj) # {} => last.warnings # <<>>
                 /\ Len(tried) = Len(obj)

\* A parent was made of "z" and "1", which have the alias "k" both: "k" is
\* bound to the sub-command "1", written second and reached first, and the
\* constructor warned of the duplicate.
CollisionOnlyWarnsWitness ==
    /\ Built
    /\ LET obj == last.options.subcommands
       IN /\ Len(obj) = 2
          /\ obj[1].key = "z"
          /\ obj[2].key = "1"
          /\ obj[1].node # obj[2].node
          /\ "k" \in AliasesOf(obj, 1) \cap AliasesOf(obj, 2)
          /\ MapNode(heap[last.ref].subcommands, "k") = obj[2].node
          /\ \E w \in DOMAIN last.warnings :
                last.warnings[w] = [warn |-> "duplicate", alias |-> "k", name |-> "z"]

(***************************************************************************)
(* The name of a NamedCommand                                              *)
(***************************************************************************)
\* The statement C6 makes of every NamedCommand: the first assignment of
\* its name succeeds, every later one fails and leaves the name as it was,
\* and a read before any assignment fails.
NameAssignableOnce ==
    /\ last.op = "setName" =>
          IF names[last.ref].sets = 1
          THEN ~last.threw /\ heap[last.ref].originalCommandName = Some(last.value)
          ELSE last.threw /\ heap[last.ref] = last.before[last.ref]
    /\ last.op = "getName" /\ names[last.ref].sets = 0 => last.threw

\* C6: the name of a NamedCommand made without nameOverride is assignable
\* once: the first assignment succeeds, every later one fails and leaves the
\* name as it was, and a read before any assignment fails.  A NamedCommand
\* made with nameOverride has that name from its construction: every
\* assignment fails and every read succeeds.  The assignment the parent's
\* constructor makes is an assignment like any other.
NameAssignableOnceUnlessOverridden ==
    /\ last.op = "setName" =>
          IF names[last.ref].sets = 1 /\ ~names[last.ref].override
          THEN ~last.threw /\ heap[last.ref].originalCommandName = Some(last.value)
          ELSE last.threw /\ heap[last.ref] = last.before[last.ref]
    /\ last.op = "getName" =>
          /\ last.threw <=> names[last.ref].sets = 0 /\ ~names[last.ref].override
          /\ ~last.threw => Some(last.value) = heap[last.ref].originalCommandName
          /\ heap = last.before
    /\ last.op = "Command" =>
          /\ \A k \in DOMAIN last.tried :
                LET r == last.tried[k]
                IN IF last.threw /\ k = Len(last.tried)
                   THEN /\ names[r].override \/ names[r].sets > 1
                        /\ heap[r].originalCommandName = last.before[r].originalCommandName
                           \/ Occurrences(last.tried, r) > 1
                   ELSE /\ ~names[r].override
                        /\ last.before[r].originalCommandName = Null
                        /\ heap[r].originalCommandName # Null
    /\ \A r \in DOMAIN names :
          names[r].override => heap[r].originalCommandName = Some("n")

\* A second assignment to a NamedCommand made without nameOverride has
\* thrown and left the first name.
NameAssignableOnceUnlessOverriddenWitness ==
    /\ last.op = "setName"
    /\ last.threw
    /\ ~names[last.ref].override
    /\ names[last.ref].sets = 2
    /\ last.value = "c"
    /\ heap[last.ref].originalCommandName = Some("b")

(***************************************************************************)
(* Failures                                                                *)
(***************************************************************************)
\* The dispatches whose call of execute ended with a rejection.
Rejected == {m \in DOMAIN disp : disp[m].pc = "rejected"}

\* C11: no call of Command.execute or RestCommand.execute ends with a
\* thrown or rejected failure: every dispatch that has left execute has a
\* result, null or a string.
NoFailureEscapes ==
    /\ Rejected = {}
    /\ \A m \in DOMAIN disp :
          Returned(disp[m]) => disp[m].result = JsNull \/ disp[m].result.t = "string"

(***************************************************************************)
(* The introspection specification: resolveInfo is called on an array of   *)
(* the caller, and called again on the same array or on another array of   *)
(* the same contents                                                       *)
(***************************************************************************)
\* The node the next call of resolveInfoInternal is made on, 0 when the
\* call on this for param makes none.
InfoNext(h, this, param) ==
    CASE param = "<channel>" -> this.channel
      [] param = "<role>" -> this.role
      [] param = "<emote>" -> this.emote
      [] param = "<message>" -> this.message
      [] param = "<user>" -> this.user
      [] param = "<id>" -> this.id
      [] param = "<number>" -> this.number
      [] param = "<any>" -> IF this.any # 0 /\ IsCommand(h[this.any]) THEN this.any ELSE 0
      [] param = "<...>" -> 0
      [] OTHER -> IF MapHas(this.subcommands, param)
                  THEN MapNode(this.subcommands, param) ELSE 0

\* const param = args.shift(): the number of elements the calls of
\* resolveInfoInternal from node ref take off the array they are given.
RECURSIVE Shifted(_, _, _)
Shifted(h, ref, args) ==
    IF Len(args) = 0 THEN 0
    ELSE LET next == InfoNext(h, h[ref], Head(args))
         IN 1 + (IF next # 0 THEN Shifted(h, next, Tail(args)) ELSE 0)

\* The array of the caller after resolveInfo(args, header) on node ref.
ArgsAfter(h, ref, args) == SubSeq(args, Shifted(h, ref, args) + 1, Len(args))

\* The first call, on a new array of the caller.
InfoCall ==
    /\ last = NoLast
    /\ \E args \in MarkerLists :
          /\ info' = resolveInfo(heap, Root, args, Header)
          /\ arrays' = Append(arrays, ArgsAfter(heap, Root, args))
          /\ last' = [op |-> "resolveInfo", array |-> Len(arrays) + 1, args |-> args]
    /\ UNCHANGED <<heap, commands, disp, names, config>>

\* The second call, with the array the first call was given.
InfoCallSameArray ==
    /\ last.op = "resolveInfo"
    /\ LET args == arrays[last.array]
       IN /\ info' = resolveInfo(heap, Root, args, Header)
          /\ arrays' = [arrays EXCEPT ![last.array] = ArgsAfter(heap, Root, args)]
          /\ last' = [op |-> "resolveInfoAgain", array |-> last.array, args |-> last.args,
                      same |-> TRUE, given |-> args, before |-> info]
    /\ UNCHANGED <<heap, commands, disp, names, config>>

\* The second call, with another array of the contents the first had.
InfoCallEqualArray ==
    /\ last.op = "resolveInfo"
    /\ info' = resolveInfo(heap, Root, last.args, Header)
    /\ arrays' = Append(arrays, ArgsAfter(heap, Root, last.args))
    /\ last' = [op |-> "resolveInfoAgain", array |-> Len(arrays) + 1, args |-> last.args,
                same |-> FALSE, given |-> last.args, before |-> info]
    /\ UNCHANGED <<heap, commands, disp, names, config>>

NextInfo ==
    \/ InfoCall
    \/ InfoCallSameArray
    \/ InfoCallEqualArray

SpecInfo == Init /\ [][NextInfo]_vars

Gates(d) == Events(d, {"canExecute"})

ServerMessage == Str("This command must be executed in a server.")

DirectMessage == Str("This command must be executed as a direct message.")

NsfwMessage ==
    Str("This command must be executed in either an NSFW channel or as a direct message.")

\* The condition of the first check: a server text channel is required and
\* the call is not from one, or has no server or no member.
NeedsServer(menu, channelType) ==
    /\ channelType = "TextChannel"
    /\ \/ menu.channel.channel_type # "TextChannel"
       \/ ~Truthy(menu.server)
       \/ ~Truthy(menu.member)

\* The condition of the second check as the claims state it: a direct
\* message is required and the call is not from one, or has a server or a
\* member.
NeedsDirect(menu, channelType) ==
    /\ channelType = "DirectMessage"
    /\ \/ menu.channel.channel_type # "DirectMessage"
       \/ Truthy(menu.server)
       \/ Truthy(menu.member)

\* The condition of the NSFW check as the claims state it.
NeedsNsfw(menu, nsfw) ==
    /\ nsfw
    /\ menu.channel.channel_type # "DirectMessage"
    /\ ~menu.channel.nsfw

\* C13: canExecute returns the NSFW message whenever the resolved nsfw is
\* true, the channel is not a direct message and is not marked NSFW (and no
\* earlier check rejects), and returns it in no other case.
NsfwGateRejects ==
    \A m \in DOMAIN disp :
        \A i \in Gates(disp[m]) :
            LET g == disp[m].log[i]
                menu == disp[m].menu
            IN /\ (/\ NeedsNsfw(menu, g.nsfw)
                   /\ ~NeedsServer(menu, g.channelType)
                   /\ ~NeedsDirect(menu, g.channelType)) => g.value = NsfwMessage
               /\ g.value = NsfwMessage => NeedsNsfw(menu, g.nsfw)

\* C14: for a resolved channelType of DirectMessage, canExecute returns
\* the direct-message error exactly when the call is not from a direct
\* message or carries a server or a member; a call from a direct message,
\* with the menu the handler builds there, passes the check.
DirectGateExact ==
    \A m \in DOMAIN disp :
        \A i \in Gates(disp[m]) :
            LET g == disp[m].log[i]
                menu == disp[m].menu
            IN g.channelType = "DirectMessage" =>
                  (g.value = DirectMessage <=> NeedsDirect(menu, g.channelType))

\* The condition of the last check: the caller is below the required level.
NeedsPermission(menu, permission) == ~hasPermission(menu.author, menu.member, permission)

\* C15: canExecute returns the message of the first check that applies, in
\* the order server text channel, direct message, NSFW, permission level,
\* and null only when none applies.
GateFirstApplicable ==
    \A m \in DOMAIN disp :
        \A i \in Gates(disp[m]) :
            LET g == disp[m].log[i]
                menu == disp[m].menu
            IN CASE NeedsServer(menu, g.channelType) -> g.value = ServerMessage
                 [] NeedsDirect(menu, g.channelType) -> g.value = DirectMessage
                 [] NeedsNsfw(menu, g.nsfw) -> g.value = NsfwMessage
                 [] NeedsPermission(menu, g.permission) ->
                        /\ g.value.t = "string"
                        /\ StartsAt(g.value.str, "You don't have access to this command!", 1)
                 [] OTHER -> g.value = JsNull

(***************************************************************************)
(* The leaf                                                                *)
(***************************************************************************)
\* The calls of Command.execute without arguments on a node whose run is a
\* string and whose gate passed.
TemplateLeaves(d) ==
    {i \in Events(d, {"execute"}) :
        /\ d.log[i].args = <<>>
        /\ heap[d.log[i].this].run.type = "string"
        /\ d.log[i + 1].ev = "canExecute"
        /\ d.log[i + 1].value = JsNull}

Kth(S, k) == CHOOSE j \in S : Cardinality({x \in S : x < j}) = k - 1

\* The value the branch that matched at log entry j resolves its argument
\* to: the number, the argument itself, the object a lookup answered, or
\* the role read from the server.
Resolved(d, j) ==
    LET e == d.log[j]
    IN CASE e.branch = "number" -> Num(ToNumber(e.param))
         [] e.branch = "any" -> Str(e.param)
         [] OTHER -> IF d.log[j - 1].ev = "found" THEN d.log[j - 1].value
                     ELSE [t |-> "role", id |-> e.param]

\* C18: a handler called after a descent through Command nodes finds in
\* the args of the call context one value for every argument a typed
\* branch matched, in the order the arguments were taken, and none for the
\* arguments that named sub-commands.
ArgsFollowDescent ==
    \A m \in DOMAIN disp :
        \A i \in Events(disp[m], {"run"}) :
            LET d == disp[m]
                args == d.log[i].args
                typed == Pushed(d)
            IN heap[d.log[i].this].cls # "RestCommand" =>
                  /\ Len(args) = Cardinality(typed)
                  /\ \A k \in 1..Len(args) :
                        /\ Kth(typed, k) < i
                        /\ args[k] = Resolved(d, Kth(typed, k))
                        /\ args[k].t # "string" \/ d.log[Kth(typed, k)].branch = "any"
                  /\ Cardinality(Events(d, {"match"})) = Len(Path(d)) - 1

\* The handler of a leaf was called with the user of a mention and the
\* role of an ID, in that order.
ArgsFollowDescentWitness ==
    \E m \in DOMAIN disp :
        \E i \in Events(disp[m], {"run"}) :
            /\ disp[m].log[i].fn = "leaf"
            /\ disp[m].log[i].args = <<[t |-> "user", id |-> IdA], [t |-> "role", id |-> IdZero]>>

(***************************************************************************)
(* The sub-commands resolveInfo lists                                      *)
(***************************************************************************)
\* What resolveInfo returns for the parent just made and no arguments.
BuiltInfo == resolveInfo(heap, last.ref, <<>>, Header)

\* C19: at the terminal case resolveInfo lists every sub-command of the
\* node once in keyedSubcommandInfo, under the name it was declared with;
\* no key that only an alias made is listed and no sub-command is missing.
KeyedListsEachSubcommandOnce ==
    Built =>
        LET obj == last.options.subcommands
            keyed == BuiltInfo.keyedSubcommandInfo
        IN /\ BuiltInfo.type = "info"
           /\ BuiltInfo.command = last.ref
           /\ Len(keyed) = Len(obj)
           /\ {keyed[i] : i \in DOMAIN keyed} = {obj[i] : i \in DOMAIN obj}
           /\ \A i, j \in DOMAIN keyed : i # j => keyed[i].node # keyed[j].node
           /\ \A i \in DOMAIN keyed :
                 /\ heap[keyed[i].node].originalCommandName = Some(keyed[i].key)
                 /\ keyed[i].key \in DirectNames(obj)

\* A parent was made of two sub-commands and has an alias in its map;
\* resolveInfo lists the two sub-commands.
KeyedListsEachSubcommandOnceWitness ==
    /\ Built
    /\ Len(last.options.subcommands) = 2
    /\ Len(heap[last.ref].subcommands) > 2
    /\ Len(BuiltInfo.keyedSubcommandInfo) = 2

(***************************************************************************)
(* execute and resolveInfo                                                 *)
(***************************************************************************)
\* The markers of resolveInfo.
ReservedMarkers ==
    {"<channel>", "<role>", "<emote>", "<message>", "<user>", "<id>", "<number>",
     "<any>", "<...>"}

\* The marker of a matched argument: the argument itself for a sub-command,
\* the marker of the branch otherwise.
MarkerOf(e) ==
    CASE e.branch = "subcommand" -> e.param
      [] e.branch = "rest" -> "<...>"
      [] OTHER -> "<" \o e.branch \o ">"

\* The marker list of the arguments a dispatch has matched.
MarkersOf(d) ==
    LET matches == SelectSeq(d.log, LAMBDA e : e.ev = "match")
    IN [k \in DOMAIN matches |-> MarkerOf(matches[k])]

\* The sub-command names among the matched arguments.
NamedTokens(d) ==
    {d.log[k].param : k \in {j \in Events(d, {"match"}) : d.log[j].branch = "subcommand"}}

\* resolveInfo on the marker list of dispatch d agrees with the leaf execute
\* reached: same node, same permission, nsfw and channelType as the gate saw.
InfoAgrees(d) ==
    \A i \in Gates(d) :
        LET r == resolveInfo(heap, Path(d)[1], MarkersOf(d), d.metadata.header)
        IN /\ r.type = "info"
           /\ r.command = d.this
           /\ r.permission = d.log[i].permission
           /\ r.nsfw = d.log[i].nsfw
           /\ r.channelType = d.log[i].channelType

\* C20 as stated: whenever execute reaches a leaf, resolveInfo with the
\* matching marker list (sub-command names as they are, a typed argument
\* replaced by the marker of its branch) resolves to the same node with the
\* same permission, nsfw and channelType.
ExecuteInfoConsistent == \A m \in DOMAIN disp : InfoAgrees(disp[m])

\* C20: execute and resolveInfo agree in that way on every dispatch none of
\* whose sub-command names is a marker of resolveInfo.
ExecuteInfoConsistentUnreserved ==
    \A m \in DOMAIN disp :
        NamedTokens(disp[m]) \cap ReservedMarkers = {} => InfoAgrees(disp[m])

\* execute reached a leaf over a sub-command given by its alias, a user
\* mention below it, and resolveInfo names the same leaf for "q <user>".
ExecuteInfoConsistentUnreservedWitness ==
    \E m \in DOMAIN disp :
        /\ Gates(disp[m]) # {}
        /\ MarkersOf(disp[m]) = <<"q", "<user>">>
        /\ InfoAgrees(disp[m])
        /\ Len(Path(disp[m])) = 3

(***************************************************************************)
(* The concurrency specification: two messages are received and their      *)
(* dispatches interleave at the awaited lookups, sends and handlers        *)
(***************************************************************************)
\* The arguments of the two messages: a mention of a user and one of a
\* channel, each resolved by an awaited lookup, and the name of a
\* sub-command.
TwoTokens == {TokUser, TokChannel, "p"}

\* The messages: from a caller of the highest level, in the server channel.
TwoMessages ==
    {[author |-> Author(MaxLevel),
      content |-> getPrefix(TextChannel.server) \o Join(<<Header>> \o list, " "),
      member |-> [t |-> "member"],
      channel |-> TextChannel] : list \in ArgListsOf(TwoTokens)}

InitTwo ==
    /\ heap = Tree(NoOptions, [permission |-> 0, nsfw |-> FALSE], [permission |-> 1])
    /\ commands = <<[key |-> Header, node |-> Len(heap) - 1],
                    [key |-> Say, node |-> Len(heap)]>>
    /\ arrays = <<>>
    /\ disp = <<Idle, Idle>>
    /\ info = NoInfo
    /\ last = NoLast
    /\ names = [r \in DOMAIN heap |->
                   [override |-> r > Len(heap) - 2,
                    sets |-> IF r <= Len(heap) - 2 /\ heap[r].cls = "NamedCommand"
                             THEN 1 ELSE 0]]
    /\ config = Launched

NextTwo == NextOf(TwoMessages)

SpecTwo == InitTwo /\ [][NextTwo]_vars

\* The message a dispatch was started for.
MessageOf(d) ==
    [author |-> d.menu.author, content |-> d.menu.message,
     member |-> d.menu.member, channel |-> d.menu.channel]

\* A dispatch with the contents of its arrays in the place of the arrays.
WithContents(d, arrs) ==
    [d EXCEPT !.args = arrs[@],
              !.menu = [@ EXCEPT !.args = arrs[@]],
              !.metadata = [@ EXCEPT !.args = arrs[@], !.symbolicArgs = arrs[@]]]

\* The steps a dispatch [d, arrays] can make when no other runs.
AloneStep(h, x) ==
    CASE x.d.pc = "execute" ->
             {CommandExecute(h, x.arrays, x.d, env) : env \in SyncEnvs}
      [] x.d.pc = "restExecute" ->
             {[d |-> RestExecute(h, x.arrays, x.d), arrays |-> x.arrays]}
      [] x.d.pc = "lookup" ->
             {LookupResume(x.arrays, x.d, env) : env \in LookupEnvs}
      [] x.d.pc = "send" ->
             {[d |-> SendResume(x.d, ok), arrays |-> x.arrays] : ok \in BOOLEAN}
      [] x.d.pc = "run" ->
             {[d |-> RunResume(x.d, error), arrays |-> x.arrays] :
                 error \in {JsNull} \cup Failures}
      [] x.d.pc = "returned" ->
             {[d |-> HandlerResume(x.d), arrays |-> x.arrays]}
      [] OTHER -> {}

\* log begins with the entries of prefix.
StartsWith(log, prefix) ==
    Len(prefix) <= Len(log) /\ prefix = SubSeq(log, 1, Len(prefix))

\* What a dispatch can come to when it runs alone from the states S, as far
\* as its trace is the beginning of log.
RECURSIVE AloneReach(_, _, _)
AloneReach(h, S, log) ==
    IF S = {} THEN {}
    ELSE S \cup AloneReach(h, {y \in UNION {AloneStep(h, x) : x \in S} :
                                  StartsWith(log, y.d.log)}, log)

\* The dispatches of a message received alone, with nothing else in the
\* arrays, whose trace is the beginning of log.
Alone(h, cmds, message, log) ==
    LET reached == AloneReach(h, {HandleMessage(cmds, <<>>, message)}, log)
    IN {WithContents(x.d, x.arrays) : x \in reached}

\* C17: whatever the other dispatch does in between, a dispatch is at every
\* moment one that its message has when it is handled alone: same result,
\* metadata, symbolic arguments, call-context args and trace.
DispatchesIndependent ==
    \A m \in DOMAIN disp :
        disp[m].menu # Undefined =>
            WithContents(disp[m], arrays)
                \in Alone(heap, commands, MessageOf(disp[m]), disp[m].log)

\* Both dispatches have resumed from a first lookup and wait for a second
\* one; the dispatch of the message received second is the first of the two.
DispatchesIndependentWitness ==
    /\ \A m \in DOMAIN disp :
          /\ disp[m].pc = "lookup"
          /\ Events(disp[m], {"found"}) # {}
          /\ arrays[disp[m].metadata.symbolicArgs] # <<>>
    /\ disp[2].menu.args < disp[1].menu.args

(***************************************************************************)
(* The order of the branches                                               *)
(***************************************************************************)
\* The branches of a node in the order Command.execute tries them.
BranchOrder ==
    <<"subcommand", "channel", "message", "user", "id", "number", "any", "rest", "nomatch">>

\* The branch is declared on the node and the argument has its form; the
\* last one, the error, takes every argument.
Applies(h, this, param, branch) ==
    CASE branch = "subcommand" -> MapHas(this.subcommands, param)
      [] branch = "channel" -> this.channel # 0 /\ MatchChannel(param)
      [] branch = "message" -> this.message # 0 /\ MatchMessageLink(param)
      [] branch = "user" -> this.user # 0 /\ MatchUser(param)
      [] branch = "id" -> this.id # 0 /\ this.idType # "null" /\ MatchId(param)
      [] branch = "number" -> this.number # 0 /\ AcceptsNumber(param)
      [] branch = "any" ->
             this.any # 0 /\ h[this.any].cls \in {"Command", "NamedCommand"}
      [] branch = "rest" -> this.any # 0 /\ h[this.any].cls = "RestCommand"
      [] branch = "nomatch" -> TRUE

\* The branch the call of execute logged at i took for its argument, read
\* off the event that follows: the match, the lookup (the generic-ID branch
\* looks the whole argument up, a mention or link branch the ID in it), or
\* what the generic-ID branch ends with when it makes no lookup.
BranchTaken(d, i) ==
    LET e == d.log[i + 1]
    IN CASE e.ev = "match" -> e.branch
         [] e.ev = "lookup" ->
                IF e.id = e.param THEN "id"
                ELSE (CASE e.fn = "getChannelByID" -> "channel"
                        [] e.fn = "getMessageByID" -> "message"
                        [] e.fn = "getUserByID" -> "user")
         [] e.ev = "nomatch" -> "nomatch"
         [] e.ev \in {"found", "return", "throw"} -> "id"

\* C21: for the argument it takes off, Command.execute selects the first
\* branch, in the order sub-command, channel mention, message link, user
\* mention, generic ID, number, any (Command), any (rest leaf), no-match,
\* that is declared on the node and whose pattern the argument matches: the
\* branch taken applies, and no branch before it in the order does.
FirstBranchWins ==
    \A m \in DOMAIN disp :
        \A i \in Taking(disp[m]) :
            LET d == disp[m]
                this == heap[d.log[i].this]
                param == Head(d.log[i].args)
                k == CHOOSE n \in DOMAIN BranchOrder : BranchOrder[n] = BranchTaken(d, i)
            IN /\ i + 1 \in DOMAIN d.log
               /\ BranchTaken(d, i) \in {BranchOrder[n] : n \in DOMAIN BranchOrder}
               /\ Applies(heap, this, param, BranchOrder[k])
               /\ \A j \in 1..(k - 1) : ~Applies(heap, this, param, BranchOrder[j])

\* A node with a channel branch, a generic-ID branch, a number branch and a
\* rest leaf took "42" by its number branch: the branches before it do not
\* match, the rest leaf after it would have taken the argument.
FirstBranchWinsWitness ==
    \E m \in DOMAIN disp :
        \E i \in Taking(disp[m]) :
            LET d == disp[m]
                this == heap[d.log[i].this]
            IN /\ Head(d.log[i].args) = "42"
               /\ BranchTaken(d, i) = "number"
               /\ this.channel # 0
               /\ this.id # 0
               /\ Applies(heap, this, "42", "rest")
               /\ NextCall(d, i + 1) = [made |-> TRUE, this |-> this.number]

(***************************************************************************)
(* The symbolic arguments                                                  *)
(***************************************************************************)
\* The arguments a dispatch had matched before log entry i.
MatchedBefore(d, i) == {k \in Events(d, {"match"}) : k < i}

\* C22: every argument a branch of a Command node matches appends one
\* placeholder to symbolicArgs and an argument whose lookup fails appends
\* none: at every call of Command.execute the length of symbolicArgs is the
\* number of arguments matched so far, and so it is when a failed lookup
\* has ended the dispatch.
PlaceholderPerToken ==
    \A m \in DOMAIN disp :
        LET d == disp[m]
        IN /\ \A i \in Events(d, {"execute"}) :
                 Len(d.log[i].symbolicArgs) = Cardinality(MatchedBefore(d, i))
           /\ \A j \in Events(d, {"found"}) :
                 d.log[j].value.t = "string" =>
                     Len(arrays[d.metadata.symbolicArgs]) = Cardinality(Events(d, {"match"}))

(***************************************************************************)
(* The failures of a handler                                               *)
(***************************************************************************)
\* The formatted error of a failure whose detail is the text detail.
HandlerError(detail) ==
    Str("There was an error while trying to execute that command!^^^" \o detail \o "^^^")

\* C23: when the handler of a leaf, of a Command or of a RestCommand, throws
\* or rejects, execute catches the failure where it called the handler and
\* returns the formatted error with the detail of the failure: no dispatch
\* that called a handler ends with a rejection, and one whose handler did
\* not return has the formatted error for its result.
HandlerFailureCaught ==
    \A m \in DOMAIN disp :
        \A i \in Events(disp[m], {"run"}) :
            LET d == disp[m]
            IN /\ d.pc # "rejected"
               /\ d.pc \in {"returned", "done"} /\ d.log[i + 1].ev # "return" =>
                     /\ d.log[i + 1].ev = "caught"
                     /\ d.result \in {HandlerError("Error: boom"), HandlerError("boom")}
                     /\ d.log[i + 2] = [ev |-> "return", value |-> d.result]

(***************************************************************************)
(* The generic-ID branch                                                   *)
(***************************************************************************)
\* The calls of Command.execute of a dispatch whose argument the generic-ID
\* branch of a node of ID kind kind took.
IdTakes(d, kind) ==
    {i \in Taking(d) : BranchTaken(d, i) = "id" /\ heap[d.log[i].this].idType = kind}

\* No node is entered and no leaf action runs after log entry i.
EndsAt(d, i) ==
    /\ Returned(d)
    /\ LeafActions(d) = {}
    /\ Events(d, {"execute", "restExecute"}) \subseteq 1..i

\* C24: on a node of ID kind emote every argument the generic-ID branch
\* takes makes execute return the not-implemented error, and no leaf runs.
\* On a node of ID kind role the argument makes execute return an error when
\* the call has no server; with a server the ID is resolved in the roles of
\* the server: the role is put in the call context and the sub-node
\* executes, or execute returns the error that the ID is no role there.
IdKindErrors ==
    \A m \in DOMAIN disp :
        LET d == disp[m]
        IN /\ \A i \in IdTakes(d, "emote") :
                 /\ EndsAt(d, i)
                 /\ d.result = Str("Emotes aren't implemented in Revolt yet.")
           /\ \A i \in IdTakes(d, "role") :
                 LET id == Head(d.log[i].args)
                 IN IF ~Truthy(d.menu.server)
                    THEN /\ EndsAt(d, i)
                         /\ d.result = Str("You can't use role parameters in DM channels!")
                    ELSE \/ /\ d.log[i + 1] = [ev |-> "match", branch |-> "id", param |-> id]
                            /\ NextCall(d, i + 1) =
                                   [made |-> TRUE, this |-> heap[d.log[i].this].id]
                            /\ [t |-> "role", id |-> id]
                                   \in {arrays[d.menu.args][v] : v \in DOMAIN arrays[d.menu.args]}
                         \/ /\ EndsAt(d, i)
                            /\ d.result = Str("^" \o id \o "^ isn't a valid role in this server!")

(***************************************************************************)
(* The launch specification: launch is called again and again              *)
(***************************************************************************)
\* The most calls of launch.
MaxLaunches == 3

\* The settings of a call: none, or an object with some of the properties;
\* the list of permission levels may be empty.
LevelLists == {<<>>, <<"Member">>, <<"Member", "Owner">>}

LaunchSettings ==
    {NoOptions, [getPrefix |-> "custom"], [useTSExtension |-> TRUE]}
    \cup {[permissionLevels |-> levels] : levels \in LevelLists}
    \cup {[permissionLevels |-> levels, getPrefix |-> "custom",
           categoryTransformer |-> "custom"] : levels \in LevelLists}

\* What loadCommands answers: the Map of the commands found in the directory.
Loadable(h) ==
    {<<>>, <<[key |-> Header, node |-> Len(h) - 1], [key |-> Say, node |-> Len(h)]>>}

InitLaunch ==
    /\ heap = Tree(NoOptions, NoOptions, NoOptions)
    /\ commands = <<>>
    /\ arrays = <<>>
    /\ disp = <<>>
    /\ info = NoInfo
    /\ last = NoLast
    /\ names = [r \in DOMAIN heap |->
                   [override |-> r > Len(heap) - 2,
                    sets |-> IF r <= Len(heap) - 2 /\ heap[r].cls = "NamedCommand"
                             THEN 1 ELSE 0]]
    /\ config = NotLaunched

\* A call of launch: last keeps its settings, whether it warned, and the
\* bindings it found.
Launch(newClient, settings, loaded) ==
    /\ (IF last = NoLast THEN 0 ELSE last.n) < MaxLaunches
    /\ LET r == launch(config, newClient, settings)
       IN /\ config' = r.config
          /\ last' = [op |-> "launch", n |-> (IF last = NoLast THEN 0 ELSE last.n) + 1,
                      settings |-> settings, warned |-> r.warned, before |-> config]
    /\ commands' = loaded
    /\ UNCHANGED <<heap, arrays, disp, info, names>>

NextLaunch ==
    \E newClient \in Clients, settings \in LaunchSettings, loaded \in Loadable(heap) :
        Launch(newClient, settings, loaded)

SpecLaunch == InitLaunch /\ [][NextLaunch]_vars

\* C25: after any sequence of calls of launch the table of permission
\* levels has at least one level; a launch whose settings carry an empty
\* list of levels warns and leaves the table as it found it, and one that
\* carries a list with levels installs that list.
TableNeverEmpty ==
    /\ Len(config.permissionLevels) >= 1
    /\ last.op = "launch" =>
          IF Has(last.settings, "permissionLevels")
          THEN IF last.settings.permissionLevels = <<>>
               THEN /\ last.warned
                    /\ config.permissionLevels = last.before.permissionLevels
               ELSE /\ ~last.warned
                    /\ config.permissionLevels = last.settings.permissionLevels
          ELSE /\ ~last.warned
               /\ config.permissionLevels = last.before.permissionLevels

\* The third launch came with an empty list, after a launch that had
\* installed two levels: it warned and the two levels are in place.
TableNeverEmptyWitness ==
    /\ last.op = "launch"
    /\ last.n = 3
    /\ Has(last.settings, "permissionLevels")
    /\ last.settings.permissionLevels = <<>>
    /\ last.warned
    /\ last.before.permissionLevels = <<"Member", "Owner">>
    /\ config.permissionLevels = <<"Member", "Owner">>

(***************************************************************************)
(* The names in a sub-command map                                          *)
(***************************************************************************)
\* The constructed Command objects that have sub-commands.
Parents == {r \in DOMAIN heap : IsCommand(heap[r]) /\ heap[r].subcommands # <<>>}

\* C26: every NamedCommand in the sub-command map of a constructed Command
\* has its name set, and every key of the map is the name of the node it
\* maps to or one of the aliases of that node; resolveInfo without arguments
\* on such a Command reads the name of every entry and none is unset.
MapEntriesNamed ==
    \A r \in Parents :
        LET map == heap[r].subcommands
        IN /\ \A i \in DOMAIN map :
                 LET node == heap[map[i].node]
                 IN /\ node.cls = "NamedCommand"
                    /\ node.originalCommandName # Null
                    /\ ~NameGetter(node).threw
                    /\ \/ map[i].key = NameGetter(node).value
                       \/ \E a \in DOMAIN node.aliases : node.aliases[a] = map[i].key
           /\ resolveInfo(heap, r, <<>>, Header).type = "info"

\* A Command was made of two sub-commands, the first with the aliases "k"
\* and "z": its map has the key "k" for the sub-command named "1", and
\* resolveInfo lists the two names.
MapEntriesNamedWitness ==
    \E r \in Parents :
        LET map == heap[r].subcommands
        IN /\ Len(map) = 3
           /\ MapHas(map, "k")
           /\ heap[MapNode(map, "k")].originalCommandName = Some("1")
           /\ MapNode(map, "z") # MapNode(map, "1")
           /\ Len(resolveInfo(heap, r, <<>>, Header).keyedSubcommandInfo) = 2

(***************************************************************************)
(* The termination specification: the dispatch of a message whose awaited  *)
(* lookups, sends and handlers all settle                                  *)
(***************************************************************************)
\* A step of the dispatch: a call of execute, or the continuation of an
\* awaited lookup, send or handler that has settled.
DispatchStep ==
    \E m \in DOMAIN disp :
        \/ Execute(m)
        \/ ExecuteRest(m)
        \/ LookupDone(m)
        \/ SendDone(m)
        \/ RunDone(m)
        \/ Replied(m)

\* One of the command trees: the nodes below the root specify permission 0
\* and the leaves permission 1, so that the gate passes for some callers and
\* rejects the others.
InitLive ==
    /\ Init
    /\ heap = Tree(NoOptions, [permission |-> 0, nsfw |-> FALSE], [permission |-> 1])

\* The event loop runs the continuation of every promise that settles.
SpecLive == InitLive /\ [][Next]_vars /\ WF_vars(DispatchStep)

\* The calls of execute of a dispatch, on Command nodes and on a rest leaf.
Calls(d) == Events(d, {"execute", "restExecute"})

\* The call of execute has ended, with a result or with a rejection.
Ended(d) == d.pc \in {"returned", "done", "rejected"}

\* The calls of the generic-ID branch that ended execute without a lookup:
\* the ID looked for in the roles of the server and not found there, and
\* the errors of an ID kind that resolves nothing (emote, role without a
\* server).
IdReturns(d) == {i \in Taking(d) : d.log[i + 1].ev = "return"}

RoleMisses(d) ==
    {i \in IdReturns(d) : heap[d.log[i].this].idType = "role" /\ Truthy(d.menu.server)}

\* The ways a dispatch ends.
EndsInLeafAction(d) == LeafActions(d) # {}

EndsInGateRejection(d) == \E i \in Gates(d) : d.log[i].value # JsNull

EndsInLookupFailure(d) ==
    \/ \E j \in Events(d, {"found"}) : d.log[j].value.t = "string"
    \/ RoleMisses(d) # {}

EndsInNoMatch(d) == Events(d, {"nomatch"}) # {}

EndsInKindError(d) == IdReturns(d) \ RoleMisses(d) # {}

EndsInRoleTableThrow(d) == \E i \in Taking(d) : d.log[i + 1].ev = "throw"

\* The number of the conditions of a set that hold.
Count(conditions) == Cardinality({c \in DOMAIN conditions : conditions[c]})

\* Every call of Command.execute is handed one argument less than the call
\* before it, so a message with n arguments makes at most n + 1 calls.
OneTokenPerCall(d) ==
    LET n == Len(d.log[1].args)
    IN /\ Cardinality(Calls(d)) <= n + 1
       /\ \A i \in Events(d, {"execute"}) :
             Len(d.log[i].args) = n - Cardinality({k \in Calls(d) : k < i})

\* C27 as stated, without its liveness part: at most n + 1 calls, each with
\* one argument less, and a dispatch that has ended has ended in exactly one
\* of leaf action, gate rejection, lookup failure and no-match.
EndsInOneOfFour ==
    \A m \in DOMAIN disp :
        LET d == disp[m]
        IN Events(d, {"listener"}) # {} =>
              /\ OneTokenPerCall(d)
              /\ Ended(d) =>
                    Count(<<EndsInLeafAction(d), EndsInGateRejection(d),
                            EndsInLookupFailure(d), EndsInNoMatch(d)>>) = 1

\* The safety part of C27: at most n + 1 calls, each with one argument
\* less, and a dispatch that has ended has ended in exactly one of leaf
\* action, gate rejection, lookup failure, no-match, the error of an ID kind
\* that resolves nothing, and the failed read of the roles of a server that
\* has none.
EndsInOneOfSix ==
    \A m \in DOMAIN disp :
        LET d == disp[m]
        IN Events(d, {"listener"}) # {} =>
              /\ OneTokenPerCall(d)
              /\ Ended(d) =>
                    Count(<<EndsInLeafAction(d), EndsInGateRejection(d),
                            EndsInLookupFailure(d), EndsInNoMatch(d),
                            EndsInKindError(d), EndsInRoleTableThrow(d)>>) = 1

\* C27: every call of Command.execute ends when the awaited lookups, sends
\* and handlers settle: each call takes one argument off the list before it
\* calls the next node, a message with n arguments makes at most n + 1 calls
\* of execute, and the dispatch ends in exactly one of the six ways.
ExecuteTerminates ==
    /\ []EndsInOneOfSix
    /\ (disp[1].pc = "execute") ~> Ended(disp[1])

\* A dispatch of two arguments has made three calls of execute and ended in
\* the action of a leaf.
ExecuteTerminatesWitness ==
    \E m \in DOMAIN disp :
        /\ Events(disp[m], {"listener"}) # {}
        /\ Len(disp[m].log[1].args) = 2
        /\ Cardinality(Calls(disp[m])) = 3
        /\ Ended(disp[m])
        /\ EndsInLeafAction(disp[m])

(***************************************************************************)
(* Commands in a direct message                                            *)
(***************************************************************************)
\* The dispatches of the messages received in a direct-message channel on
\* whose path no node specifies a channelType.
DirectUnspecified ==
    {m \in DOMAIN disp :
        /\ Events(disp[m], {"listener"}) # {}
        /\ disp[m].menu.channel.channel_type = "DirectMessage"
        /\ \A k \in DOMAIN Path(disp[m]) : heap[Path(disp[m])[k]].channelType = "null"}

\* C28: a command received in a direct-message channel whose path specifies
\* no channelType comes to the gate with the default TextChannel and is
\* rejected with the message that it must be executed in a server; its leaf
\* action never runs, and the message is what the handler replies.
DirectDefaultRejected ==
    \A m \in DirectUnspecified :
        LET d == disp[m]
        IN /\ d.metadata.channelType = "TextChannel"
           /\ LeafActions(d) = {}
           /\ \A i \in Gates(d) :
                 /\ d.log[i].channelType = "TextChannel"
                 /\ d.log[i].value = ServerMessage
                 /\ Returned(d)
                 /\ d.result = ServerMessage
                 /\ d.pc = "done" =>
                       d.log[Len(d.log)] = [ev |-> "reply", content |-> ServerMessage]

\* A caller of the highest level sent "cmd x" in a direct message to a tree
\* that specifies no channelType: the gate of the node under the any branch
\* rejected, and the handler replied with the message.
DirectDefaultRejectedWitness ==
    \E m \in DirectUnspecified :
        LET d == disp[m]
        IN /\ d.menu.message = "cmd x"
           /\ d.menu.author.level = MaxLevel
           /\ Len(Path(d)) = 2
           /\ Gates(d) # {}
           /\ d.pc = "done"
           /\ d.log[Len(d.log)] = [ev |-> "reply", content |-> ServerMessage]

====
